---- MODULE Spec2Model ----
(***************************************************************************)
(* SetupVault: detection -> diff -> staging -> document store.             *)
(*                                                                         *)
(* Text is a sequence of one-character strings (<<"j","q">> is "jq"), so   *)
(* that trimming, line splitting and slugs are computed, not assumed.      *)
(* serde_yaml (an external crate) is taken to read back the value it       *)
(* wrote: a state file holds a sequence of DetectedChange records, and the *)
(* frontmatter of an entry document is one composite token.                *)
(* A Uuid::new_v4() is the next value of the counter nextId; Utc::now() is *)
(* the value of the same counter when the scan or capture starts.          *)
(***************************************************************************)
EXTENDS Naturals, Integers, Sequences, FiniteSets, TLC

VARIABLES
    inbox,      \* .state/inbox.yaml: sequence of DetectedChange
    snoozed,    \* .state/snoozed.yaml: sequence of DetectedChange
    snapshots,  \* .state/detectors/<source>.yaml, by source
    files,      \* entries tree: path -> document text, for the files present
    nextId,     \* number of identifiers minted so far
    last,       \* history: the last operation, its inputs and its outcome
    lastScan,   \* history: keys returned by the latest successful refresh
    snapshotted, \* history: keys that have been in a snapshot
    deleted,    \* history: ids whose delete succeeded and that were not written since
    pure,       \* inputs and outputs of the pure functions and constructors
    codec,      \* an entry, its rendered document and the parsed result
    run,        \* run_detectors: tasks, join position, accumulated changes
    scan,       \* one detector's scan: the detector, its tools, the result
    proc        \* callers inside an operation: position, local copies, events

vars == <<inbox, snoozed, snapshots, files, nextId, last, lastScan, snapshotted,
          deleted, pure, codec, run, scan, proc>>

----------------------------------------------------------------------------
(* Bounds *)

\* identifiers minted in one behaviour of Spec
MaxId == 3
\* lines one external tool prints in one scan
MaxLines == 1
\* length of the lists given to diff_changes and append_unique
MaxPureLen == 2
\* characters of a rationale or verification text
MaxText == 3
\* identifiers of the entries given to create, update and delete
MaxStoreId == 2
\* identifiers minted in one behaviour of SpecPromote
MaxPromoteId == 4
\* characters of a line given to split_columns
MaxLineLen == 7

----------------------------------------------------------------------------
(* Sequences and text *)

Range(s) == {s[i] : i \in DOMAIN s}

SeqsUpTo(S, n) == UNION {[1..k -> S] : k \in 0..n}

RECURSIVE Concat(_)
Concat(ss) == IF ss = <<>> THEN <<>> ELSE Head(ss) \o Concat(Tail(ss))

\* s without its element at position p
RemoveAt(s, p) == SubSeq(s, 1, p - 1) \o SubSeq(s, p + 1, Len(s))

Min(S) == CHOOSE x \in S : \A y \in S : x <= y

Whitespace == {" ", "\n", "\t"}

RECURSIVE TrimStart(_)
TrimStart(t) ==
    IF t # <<>> /\ Head(t) \in Whitespace THEN TrimStart(Tail(t)) ELSE t

RECURSIVE TrimEnd(_)
TrimEnd(t) ==
    IF t # <<>> /\ t[Len(t)] \in Whitespace
    THEN TrimEnd(SubSeq(t, 1, Len(t) - 1)) ELSE t

Trim(t) == TrimEnd(TrimStart(t))

StartsWith(t, p) == Len(t) >= Len(p) /\ SubSeq(t, 1, Len(p)) = p

Contains(t, p) ==
    \E i \in 1..(Len(t) + 1) : i + Len(p) - 1 <= Len(t) /\ SubSeq(t, i, i + Len(p) - 1) = p

----------------------------------------------------------------------------
(* Domain records, sv-core *)

EntryTypes == {"package", "config", "application", "script", "other"}

System == [os |-> "macos", arch |-> "arm64"]

None == [some |-> FALSE]
Some(v) == [some |-> TRUE, val |-> v]

\* CoreResult
Ok(v) == [ok |-> TRUE, val |-> v]
ValidationErr == [ok |-> FALSE, err |-> "validation"]
StorageErr == [ok |-> FALSE, err |-> "storage"]

\* Rationale::new that accepts every text
Rationale_new_any(text) == Ok(text)

\* Rationale::new: rejects text that is empty after trimming, keeps the text
Rationale_new(text) == IF Trim(text) = <<>> THEN ValidationErr ELSE Ok(text)

\* Tag::new that keeps the trimmed value
Tag_new_trimmed(value) == IF Trim(value) = <<>> THEN ValidationErr ELSE Ok(Trim(value))

\* Tag::new: the same rule
Tag_new(value) == IF Trim(value) = <<>> THEN ValidationErr ELSE Ok(value)

\* Entry::new without the checks
Entry_new_unchecked(id, title, entry_type, source, cmd, system, detected_at, status, tags, rationale, verification) ==
    Ok([id |-> id, title |-> title, entry_type |-> entry_type,
        source |-> source, cmd |-> cmd, system |-> system,
        detected_at |-> detected_at, status |-> status, tags |-> tags,
        rationale |-> rationale, verification |-> verification])

\* Entry::new: title, source and cmd must be non-empty after trimming
Entry_new(id, title, entry_type, source, cmd, system, detected_at, status, tags, rationale, verification) ==
    IF Trim(title) = <<>> \/ Trim(source) = <<>> \/ Trim(cmd) = <<>>
    THEN ValidationErr
    ELSE Ok([id |-> id, title |-> title, entry_type |-> entry_type,
             source |-> source, cmd |-> cmd, system |-> system,
             detected_at |-> detected_at, status |-> status, tags |-> tags,
             rationale |-> rationale, verification |-> verification])

\* struct DetectedChange
DetectedChange(id, path, title, entry_type, source, cmd, detected_at, tags) ==
    [id |-> id, path |-> path, title |-> title, entry_type |-> entry_type,
     source |-> source, cmd |-> cmd, system |-> System,
     detected_at |-> detected_at, tags |-> tags]

----------------------------------------------------------------------------
(* diff, merge and grouping, sv-cli and sv-tui *)

\* the (source, title) pair both functions key on
Key(change) == <<change.source, change.title>>

Keys(s) == {Key(s[i]) : i \in DOMAIN s}

diff_changes_by_id(previous, current) ==
    LET ids == {previous[i].id : i \in DOMAIN previous}
        New(change) == change.id \notin ids
    IN  SelectSeq(current, New)

diff_changes(previous, current) ==
    LET previous_keys == Keys(previous)
        New(change) == Key(change) \notin previous_keys
    IN  SelectSeq(current, New)

append_all_unseen(target, incoming) ==
    LET seen == Keys(target)
        New(change) == Key(change) \notin seen
    IN  target \o SelectSeq(incoming, New)

RECURSIVE append_unique(_, _)
append_unique(target, incoming) ==
    IF incoming = <<>> THEN target
    ELSE IF Key(Head(incoming)) \in Keys(target)
         THEN append_unique(target, Tail(incoming))
         ELSE append_unique(Append(target, Head(incoming)), Tail(incoming))

\* the BTreeMap of group_by_source: its keys, and the group of one key
GroupSources(changes) == {changes[i].source : i \in DOMAIN changes}

group_by_source(changes, source) ==
    LET Mine(change) == change.source = source
    IN  SelectSeq(changes, Mine)

----------------------------------------------------------------------------
(* Entry documents, sv-fs: render_entry, parse_entry and their helpers *)

\* A document is its text plus the Frontmatter value that serde_yaml wrote;
\* in the text the YAML block is the single token "<yaml>".
YamlToken == "<yaml>"

Header == <<"-", "-", "-", "\n">>
Marker == <<"\n", "-", "-", "-", "\n">>

HeadingLine(heading) == <<"#", " ", heading>>

\* struct Frontmatter, as render_entry fills it
Frontmatter(entry) ==
    [id |-> entry.id, title |-> entry.title, entry_type |-> entry.entry_type,
     source |-> entry.source, cmd |-> entry.cmd, system |-> entry.system,
     detected_at |-> entry.detected_at, status |-> entry.status,
     tags |-> entry.tags]

render_entry(entry) ==
    [fm |-> Frontmatter(entry),
     text |-> Header \o <<YamlToken, "\n">> \o <<"-", "-", "-", "\n", "\n">>
              \o HeadingLine("Rationale") \o <<"\n">> \o entry.rationale
              \o <<"\n", "\n">> \o HeadingLine("Verification") \o <<"\n">>
              \o (IF entry.verification.some THEN entry.verification.val ELSE <<>>)
              \o <<"\n">>]

\* str::find: the first position where the pattern starts, 0 when there is none
Find(t, p) ==
    LET hits == {i \in 1..Len(t) : i + Len(p) - 1 <= Len(t)
                                   /\ SubSeq(t, i, i + Len(p) - 1) = p}
    IN  IF hits = {} THEN 0 ELSE Min(hits)

\* split_frontmatter: Ok([frontmatter, body]) or a storage error
split_frontmatter(contents) ==
    IF ~StartsWith(contents, Header) THEN StorageErr
    ELSE LET remainder == SubSeq(contents, Len(Header) + 1, Len(contents))
             end == Find(remainder, Marker)
         IN  IF end = 0 THEN StorageErr
             ELSE Ok([frontmatter |-> TrimEnd(SubSeq(remainder, 1, end - 1)),
                      body |-> TrimStart(SubSeq(remainder, end + Len(Marker),
                                                Len(remainder)))])

\* parse_frontmatter: serde_yaml reads back the value behind the YAML block
parse_frontmatter(doc) ==
    LET split == split_frontmatter(doc.text)
    IN  IF ~split.ok THEN split
        ELSE IF split.val.frontmatter = <<YamlToken>> THEN Ok(doc.fm)
        ELSE StorageErr

parse_body(doc) ==
    LET split == split_frontmatter(doc.text)
    IN  IF ~split.ok THEN split ELSE Ok(split.val.body)

\* str::lines: split at "\n", no final empty line
RECURSIVE Lines(_)
Lines(t) ==
    IF t = <<>> THEN <<>>
    ELSE LET nl == Find(t, <<"\n">>)
         IN  IF nl = 0 THEN <<t>>
             ELSE <<SubSeq(t, 1, nl - 1)>> \o Lines(SubSeq(t, nl + 1, Len(t)))

\* [String]::join("\n")
RECURSIVE JoinLines(_)
JoinLines(ls) ==
    IF ls = <<>> THEN <<>>
    ELSE IF Len(ls) = 1 THEN Head(ls)
    ELSE Head(ls) \o <<"\n">> \o JoinLines(Tail(ls))

\* the lines of a section: up to the next line that starts with "# "
RECURSIVE SectionLines(_)
SectionLines(ls) ==
    IF ls = <<>> THEN <<>>
    ELSE IF StartsWith(TrimStart(Head(ls)), <<"#", " ">>) THEN <<>>
    ELSE <<Head(ls)>> \o SectionLines(Tail(ls))

RECURSIVE extract_section_lines(_, _)
extract_section_lines(ls, heading) ==
    IF ls = <<>> THEN None
    ELSE IF Trim(Head(ls)) = HeadingLine(heading)
         THEN Some(Trim(JoinLines(SectionLines(Tail(ls)))))
         ELSE extract_section_lines(Tail(ls), heading)

extract_section(body, heading) == extract_section_lines(Lines(body), heading)

\* Vec<String> -> CoreResult<Vec<Tag>>
TagsResult(tags) ==
    IF \E i \in DOMAIN tags : ~Tag_new(tags[i]).ok THEN ValidationErr ELSE Ok(tags)

parse_entry(doc) ==
    LET frontmatter == parse_frontmatter(doc)
        body == parse_body(doc)
    IN  IF ~frontmatter.ok THEN frontmatter
        ELSE IF ~body.ok THEN body
        ELSE LET section == extract_section(body.val, "Rationale")
             IN  IF ~section.some THEN StorageErr
                 ELSE LET rationale == Rationale_new(section.val)
                          verification == extract_section(body.val, "Verification")
                          tags == TagsResult(frontmatter.val.tags)
                          fm == frontmatter.val
                      IN  IF ~rationale.ok THEN rationale
                          ELSE IF ~tags.ok THEN tags
                          ELSE Entry_new(fm.id, fm.title, fm.entry_type, fm.source,
                                         fm.cmd, fm.system, fm.detected_at, fm.status,
                                         tags.val, rationale.val, verification)

----------------------------------------------------------------------------
(* Entry paths, sv-fs *)

Lowercase == {"a", "b", "d", "f", "g", "i", "j", "q", "t"}
Uppercase == {"A", "B", "J"}
Digits == {"0", "1"}

to_ascii_lowercase(ch) ==
    CASE ch = "A" -> "a" [] ch = "B" -> "b" [] ch = "J" -> "j" [] OTHER -> ch

is_ascii_alphanumeric(ch) == ch \in Lowercase \cup Uppercase \cup Digits

RECURSIVE TrimDashes(_)
TrimDashes(t) ==
    IF t # <<>> /\ Head(t) = "-" THEN TrimDashes(Tail(t))
    ELSE IF t # <<>> /\ t[Len(t)] = "-" THEN TrimDashes(SubSeq(t, 1, Len(t) - 1))
    ELSE t

\* the loop of slugify: slug so far, last_dash, rest of the input
RECURSIVE SlugLoop(_, _, _)
SlugLoop(slug, last_dash, input) ==
    IF input = <<>> THEN slug
    ELSE IF is_ascii_alphanumeric(Head(input))
         THEN SlugLoop(Append(slug, to_ascii_lowercase(Head(input))), FALSE, Tail(input))
    ELSE IF ~last_dash THEN SlugLoop(Append(slug, "-"), TRUE, Tail(input))
    ELSE SlugLoop(slug, last_dash, Tail(input))

slugify(input) == TrimDashes(SlugLoop(<<>>, FALSE, input))

entry_dir(entry_type, source) ==
    <<CASE entry_type = "package" -> "packages"
        [] entry_type = "config" -> "configs"
        [] entry_type = "application" -> "applications"
        [] entry_type = "script" -> "scripts"
        [] OTHER -> "other",
      source>>

entry_file_name(entry) == <<entry.source, slugify(entry.title), entry.id>>

entry_path(entry) ==
    [dir |-> entry_dir(entry.entry_type, entry.source), name |-> entry_file_name(entry)]

----------------------------------------------------------------------------
(* The document store, sv-fs: impl VaultRepository for FsVault.            *)
(* A store is a function from the paths of the files present to documents. *)

WriteFile(store, path, doc) ==
    [p \in DOMAIN store \cup {path} |-> IF p = path THEN doc ELSE store[p]]

RemoveFile(store, path) == [p \in DOMAIN store \ {path} |-> store[p]]

\* find_entry_path returns the first match in WalkDir's order, which the
\* file system decides: any file whose frontmatter parses and carries the id
FindEntryPaths(store, id) ==
    {p \in DOMAIN store :
        parse_frontmatter(store[p]).ok /\ parse_frontmatter(store[p]).val.id = id}

\* the orders in which WalkDir can yield the files
WalkOrders(store) ==
    {o \in [1..Cardinality(DOMAIN store) -> DOMAIN store] :
        \A i, j \in DOMAIN o : o[i] = o[j] => i = j}

\* a listing that leaves out the files that do not parse
RECURSIVE list_in_skipping(_, _)
list_in_skipping(store, order) ==
    IF order = <<>> THEN Ok(<<>>)
    ELSE LET parsed == parse_entry(store[Head(order)])
             rest == list_in_skipping(store, Tail(order))
         IN  IF parsed.ok THEN Ok(<<parsed.val>> \o rest.val) ELSE rest

\* the loop of list over the files in one order: `?` on the first failure
RECURSIVE list_in(_, _)
list_in(store, order) ==
    IF order = <<>> THEN Ok(<<>>)
    ELSE LET parsed == parse_entry(store[Head(order)])
         IN  IF ~parsed.ok THEN parsed
             ELSE LET rest == list_in(store, Tail(order))
                  IN  IF ~rest.ok THEN rest ELSE Ok(<<parsed.val>> \o rest.val)

\* list: the results the call can return
list(store) == {list_in(store, o) : o \in WalkOrders(store)}

\* get: the results the call can return
get(store, id) ==
    IF FindEntryPaths(store, id) = {} THEN {Ok(None)}
    ELSE {LET parsed == parse_entry(store[p])
          IN  IF parsed.ok THEN Ok(Some(parsed.val)) ELSE parsed :
          p \in FindEntryPaths(store, id)}

create(store, entry) == WriteFile(store, entry_path(entry), render_entry(entry))

\* update: the stores the call can leave
update(store, entry) ==
    IF FindEntryPaths(store, entry.id) = {} THEN {create(store, entry)}
    ELSE {WriteFile(store, p, render_entry(entry)) : p \in FindEntryPaths(store, entry.id)}

\* a delete that removes nothing
delete_nothing(store, id) == {store}

\* delete: the stores the call can leave
delete(store, id) ==
    IF FindEntryPaths(store, id) = {} THEN {store}
    ELSE {RemoveFile(store, p) : p \in FindEntryPaths(store, id)}

----------------------------------------------------------------------------
(* Detectors, sv-detectors.  What an external tool does is the input:      *)
(* [kind, lines] with kind "notfound" (no such binary), "nonzero" (it ran  *)
(* and exited with a failure status) or "ok" (its stdout, as lines).       *)

NotFound == [kind |-> "notfound", lines |-> <<>>]
NonZero == [kind |-> "nonzero", lines |-> <<>>]
Stdout(lines) == [kind |-> "ok", lines |-> lines]

CommandErr(command) == [ok |-> FALSE, err |-> "storage", from |-> command]

\* run_command that reports a binary it cannot find as an error
run_command_strict(command, out) ==
    CASE out.kind = "ok" -> Ok(out.lines)
      [] OTHER -> CommandErr(command)

\* run_command: Ok(stdout) or a storage error
run_command(command, out) ==
    CASE out.kind = "notfound" -> Ok(<<>>)
      [] out.kind = "nonzero" -> CommandErr(command)
      [] OTHER -> Ok(out.lines)

\* the loop of a split that starts a column at every whitespace run
RECURSIVE SplitLoopAnyRun(_, _, _, _)
SplitLoopAnyRun(rest, columns, current, space_run) ==
    IF rest = <<>>
    THEN IF Trim(current) # <<>> THEN Append(columns, Trim(current)) ELSE columns
    ELSE IF Head(rest) \in Whitespace
         THEN SplitLoopAnyRun(Tail(rest), columns, current, space_run + 1)
         ELSE IF space_run >= 1
              THEN SplitLoopAnyRun(Tail(rest),
                                   IF Trim(current) # <<>>
                                   THEN Append(columns, Trim(current)) ELSE columns,
                                   <<Head(rest)>>, 0)
              ELSE SplitLoopAnyRun(Tail(rest), columns, Append(current, Head(rest)), 0)

split_columns_any_run(line) == SplitLoopAnyRun(line, <<>>, <<>>, 0)

\* the loop of split_columns over the characters left, with its three locals
RECURSIVE SplitLoop(_, _, _, _)
SplitLoop(rest, columns, current, space_run) ==
    IF rest = <<>>
    THEN IF Trim(current) # <<>> THEN Append(columns, Trim(current)) ELSE columns
    ELSE IF Head(rest) \in Whitespace
         THEN SplitLoop(Tail(rest), columns, current, space_run + 1)
         ELSE IF space_run >= 2
              THEN SplitLoop(Tail(rest),
                             IF Trim(current) # <<>>
                             THEN Append(columns, Trim(current)) ELSE columns,
                             <<Head(rest)>>, 0)
              ELSE IF space_run = 1
                   THEN SplitLoop(Tail(rest), columns,
                                  current \o <<" ", Head(rest)>>, 0)
                   ELSE SplitLoop(Tail(rest), columns, Append(current, Head(rest)), 0)

split_columns(line) == SplitLoop(line, <<>>, <<>>, 0)

\* output.lines().map(str::trim).filter(|line| !line.is_empty())
RECURSIVE TrimmedLines(_)
TrimmedLines(lines) ==
    IF lines = <<>> THEN <<>>
    ELSE IF Trim(Head(lines)) = <<>> THEN TrimmedLines(Tail(lines))
    ELSE <<Trim(Head(lines))>> \o TrimmedLines(Tail(lines))

\* line.rsplit('/').next(): the text after the last '/'
RECURSIVE AfterLastSlash(_)
AfterLastSlash(t) ==
    LET slash == Find(t, <<"/">>)
    IN  IF slash = 0 THEN t ELSE AfterLastSlash(SubSeq(t, slash + 1, Len(t)))

Homebrew == <<"homebrew">>
Npm == <<"npm">>

\* the changes one loop of a scan pushes: one per name, ids base+1, base+2, ...
ChangesOf(names, base, now, entry_type, source, cmd_prefix, tag) ==
    [i \in 1..Len(names) |->
        DetectedChange(base + i, None, names[i], entry_type, source,
                       cmd_prefix \o names[i], now, <<tag>>)]

\* BrewDetector::scan: formulae, then casks; a failed command is skipped
BrewScan(env, base, now) ==
    LET formula == run_command("brew", env.formula)
        cask == run_command("brew", env.cask)
        formulae == IF formula.ok
                    THEN ChangesOf(TrimmedLines(formula.val), base, now, "package",
                                   Homebrew, <<"brew install ">>, <<"package">>)
                    ELSE <<>>
        casks == IF cask.ok
                 THEN ChangesOf(TrimmedLines(cask.val), base + Len(formulae), now,
                                "application", Homebrew, <<"brew install --cask ">>,
                                <<"application">>)
                 ELSE <<>>
    IN  Ok(formulae \o casks)

\* NpmDetector::scan: the first line is the root, each other line a path
NpmScan(env, base, now) ==
    LET output == run_command("npm", env.npm)
    IN  IF ~output.ok THEN output
        ELSE LET lines == IF output.val = <<>> THEN <<>> ELSE Tail(output.val)
                 trimmed == TrimmedLines(lines)
                 names == [i \in 1..Len(trimmed) |-> AfterLastSlash(trimmed[i])]
             IN  Ok(ChangesOf(names, base, now, "package", Npm,
                              <<"npm install -g ">>, <<"package">>))

Cargo == <<"cargo">>

\* split_whitespace().next() of a trimmed, non-empty line
RECURSIVE FirstWord(_)
FirstWord(t) ==
    IF t = <<>> \/ Head(t) \in Whitespace THEN <<>>
    ELSE <<Head(t)>> \o FirstWord(Tail(t))

\* the lines CargoDetector::scan keeps: trimmed, not empty, not starting
\* with a space
RECURSIVE CargoLines(_)
CargoLines(lines) ==
    IF lines = <<>> THEN <<>>
    ELSE LET line == Trim(Head(lines))
         IN  IF line = <<>> \/ StartsWith(line, <<" ">>)
             THEN CargoLines(Tail(lines))
             ELSE <<line>> \o CargoLines(Tail(lines))

\* CargoDetector::scan: one package per kept line, named by its first word
CargoScan(env, base, now) ==
    LET output == run_command("cargo", env.cargo)
    IN  IF ~output.ok THEN output
        ELSE LET kept == CargoLines(output.val)
                 names == [i \in 1..Len(kept) |-> FirstWord(kept[i])]
             IN  Ok(ChangesOf(names, base, now, "package", Cargo,
                              <<"cargo install ">>, <<"package">>))

Applications == <<"applications">>

\* normalize_name: the loop and the trim of slugify, in sv-detectors
normalize_name(input) == TrimDashes(SlugLoop(<<>>, FALSE, input))

\* the path read_dir yields for an application bundle
AppPath(name) == <<"/Applications/">> \o name \o <<".app">>

\* the bundles kept: those whose normalized name is no brew cask
AppsKept(names, brew_casks) ==
    LET Kept(name) == normalize_name(name) \notin brew_casks
    IN  SelectSeq(names, Kept)

\* AppDetector::scan on macOS: env.apps is /Applications, in read_dir's order;
\* a brew call that fails counts as no casks
AppScan(env, base, now) ==
    IF ~env.apps.exists THEN Ok(<<>>)
    ELSE LET output == run_command("brew", env.cask)
             lines == IF output.ok THEN output.val ELSE <<>>
             brew_casks == {normalize_name(Trim(lines[i])) : i \in DOMAIN lines}
             kept == AppsKept(env.apps.names, brew_casks)
         IN  Ok([i \in 1..Len(kept) |->
                    DetectedChange(base + i, Some(AppPath(kept[i])), kept[i],
                                   "application", Applications,
                                   <<"open \"">> \o AppPath(kept[i]) \o <<"\"">>,
                                   now, <<<<"application">>>>)])

\* default_detectors: the detectors of the model, by name(), in list order
Detectors == <<Homebrew, Npm>>

Sources == Range(Detectors)

Scan(detector, env, base, now) ==
    IF detector = Homebrew THEN BrewScan(env, base, now)
    ELSE IF detector = Npm THEN NpmScan(env, base, now)
    ELSE IF detector = Cargo THEN CargoScan(env, base, now)
    ELSE AppScan(env, base, now)

\* the changes a result carries, none for an error
ChangesIn(result) == IF result.ok THEN result.val ELSE <<>>

\* a join that leaves out the failed scans
RECURSIVE join_results_skipping(_)
join_results_skipping(results) ==
    IF results = <<>> THEN Ok(<<>>)
    ELSE IF ~Head(results).ok THEN join_results_skipping(Tail(results))
    ELSE Ok(Head(results).val \o join_results_skipping(Tail(results)).val)

\* the join loop of run_detectors over the tasks' results, in handle order:
\* the first error ends the call, otherwise the changes are concatenated
RECURSIVE join_results(_)
join_results(results) ==
    IF results = <<>> THEN Ok(<<>>)
    ELSE IF ~Head(results).ok THEN Head(results)
    ELSE LET rest == join_results(Tail(results))
         IN  IF ~rest.ok THEN rest ELSE Ok(Head(results).val \o rest.val)

\* every detector's scan result when the scans run one after another
RECURSIVE ScanEach(_, _, _, _)
ScanEach(detectors, env, base, now) ==
    IF detectors = <<>> THEN <<>>
    ELSE LET first == Scan(Head(detectors), env, base, now)
         IN  <<first>> \o ScanEach(Tail(detectors), env, base + Len(ChangesIn(first)), now)

----------------------------------------------------------------------------
(* Inputs of the model *)

Jq == <<"j", "q">>
Fd == <<"f", "d">>

\* brew lists at most MaxLines formulae and casks, npm the root and packages
FormulaOutcomes == {NotFound, NonZero} \cup {Stdout(l) : l \in SeqsUpTo({Jq}, MaxLines)}
CaskOutcomes == {NotFound, NonZero} \cup {Stdout(l) : l \in SeqsUpTo({Fd}, MaxLines)}
NpmRoot == <<"/", "l">>
NpmOutcomes ==
    {NotFound, NonZero}
    \cup {Stdout(<<NpmRoot>> \o l) : l \in SeqsUpTo({NpmRoot \o <<"/">> \o Jq}, MaxLines)}

Envs == [formula : FormulaOutcomes, cask : CaskOutcomes, npm : NpmOutcomes]

\* what the detectors' scans can return to one refresh that starts at base
ScanResultsAt == [base \in 0..MaxId |-> {ScanEach(Detectors, env, base, base) : env \in Envs}]

ScanResults(base) == ScanResultsAt[base]

Ids == 1..MaxId

ApproveRationales == {<<"w">>, <<" ">>}

\* --tags of approve, as parse_tags splits them
ApproveTags == {<<>>, <<<<"t">>>>}

----------------------------------------------------------------------------
(* State lists, sv-fs: FsVault *)

HasId(s, id) == \E i \in DOMAIN s : s[i].id = id

\* iter().position(|change| change.id == id), for a list that holds the id
PositionOf(s, id) == Min({i \in DOMAIN s : s[i].id = id})

\* retain(|change| change.id != id)
WithoutId(s, id) ==
    LET Keep(change) == change.id # id
    IN  SelectSeq(s, Keep)

\* an insertion at the head of the list
add_inbox_item_first(items, item) == <<item>> \o items

\* add_inbox_item: load, push, save
add_inbox_item(items, item) == Append(items, item)

\* a removal that keeps the list as it is
remove_no_item(items, id) == items

\* remove_inbox_item and remove_snoozed_item: load, retain, save
remove_item(items, id) == WithoutId(items, id)

\* a move that leaves the item in the list it is taken from
move_item_copying(from, to, id) ==
    IF HasId(from, id)
    THEN [from |-> from, to |-> Append(to, from[PositionOf(from, id)])]
    ELSE [from |-> from, to |-> to]

\* a move that puts the item where it is found first in the destination
move_item_to_front(from, to, id) ==
    IF HasId(from, id)
    THEN [from |-> RemoveAt(from, PositionOf(from, id)),
          to |-> <<from[PositionOf(from, id)]>> \o to]
    ELSE [from |-> from, to |-> to]

\* snooze_inbox_item and unsnooze_item: remove at the position found, push to
\* the other list, save both; nothing is written when the id is not found
move_item(from, to, id) ==
    IF HasId(from, id)
    THEN [from |-> RemoveAt(from, PositionOf(from, id)),
          to |-> Append(to, from[PositionOf(from, id)])]
    ELSE [from |-> from, to |-> to]

----------------------------------------------------------------------------
(* Refresh, sv-cli inbox(refresh) and sv-tui handle_refresh *)

\* the sources of the groups, in the BTreeMap's (alphabetical) order
RECURSIVE GroupOrder(_, _)
GroupOrder(order, changes) ==
    IF order = <<>> THEN <<>>
    ELSE IF Head(order) \in GroupSources(changes)
         THEN <<Head(order)>> \o GroupOrder(Tail(order), changes)
         ELSE GroupOrder(Tail(order), changes)

SourceOrder == <<Homebrew, Npm>>

\* a snapshot that keeps only the new items of the scan
snapshot_of_diff(snaps, changes, source) ==
    IF source \in GroupSources(changes)
    THEN diff_changes(snaps[source], group_by_source(changes, source))
    ELSE snaps[source]

\* the snapshot of a source after the loop: the group, when the source has one
snapshot_after(snaps, changes, source) ==
    IF source \in GroupSources(changes)
    THEN group_by_source(changes, source)
    ELSE snaps[source]

\* new_changes without the diff: every scanned item
all_changes_of(snaps, changes, order) == changes

\* new_changes: the diffs of the groups, in the loop's order
RECURSIVE new_changes_of(_, _, _)
new_changes_of(snaps, changes, order) ==
    IF order = <<>> THEN <<>>
    ELSE diff_changes(snaps[Head(order)], group_by_source(changes, Head(order)))
         \o new_changes_of(snaps, changes, Tail(order))

\* the inbox after the refresh: written only when there is something new
inbox_of_new_changes(items, new_changes) ==
    IF new_changes # <<>> THEN append_unique(<<>>, new_changes) ELSE items

inbox_after(items, new_changes) ==
    IF new_changes # <<>> THEN append_unique(items, new_changes) ELSE items

SnapshotKeys(snaps) == UNION {Keys(snaps[s]) : s \in DOMAIN snaps}

NoScan == [some |-> FALSE]

Refresh(results) ==
    LET joined == join_results(results)
    IN  IF ~joined.ok
        THEN /\ last' = [op |-> "refresh", ok |-> FALSE]
             /\ UNCHANGED <<inbox, snoozed, snapshots, files, nextId, lastScan, snapshotted>>
        ELSE LET changes == joined.val
                 new_changes == new_changes_of(snapshots, changes,
                                               GroupOrder(SourceOrder, changes))
             IN  /\ nextId' = nextId + Len(changes)
                 /\ snapshots' = [s \in Sources |-> snapshot_after(snapshots, changes, s)]
                 /\ inbox' = inbox_after(inbox, new_changes)
                 /\ lastScan' = Some(Keys(changes))
                 /\ snapshotted' = snapshotted \cup SnapshotKeys(snapshots')
                 /\ last' = [op |-> "refresh", ok |-> TRUE,
                             same |-> lastScan = Some(Keys(changes)),
                             cold |-> {s \in GroupSources(changes) : snapshots[s] = <<>>},
                             diff |-> Keys(new_changes)]
                 /\ UNCHANGED <<snoozed, files>>

----------------------------------------------------------------------------
(* Review operations, sv-cli and sv-tui *)

Ignore(id) ==
    /\ inbox' = remove_item(inbox, id)
    /\ last' = [op |-> "ignore"]
    /\ UNCHANGED <<snoozed, snapshots, files, nextId, lastScan, snapshotted>>

\* a snooze that also files the item as an entry of status snoozed
SnoozeAsEntry(id) ==
    LET moved == move_item(inbox, snoozed, id)
    IN  /\ inbox' = moved.from
        /\ snoozed' = moved.to
        /\ files' = IF HasId(inbox, id)
                    THEN LET change == inbox[PositionOf(inbox, id)]
                         IN  create(files, Entry_new(change.id, change.title,
                                 change.entry_type, change.source, change.cmd,
                                 change.system, change.detected_at, "snoozed",
                                 <<>>, <<"w">>, None).val)
                    ELSE files
        /\ last' = [op |-> "snooze", found |-> HasId(inbox, id)]
        /\ UNCHANGED <<snapshots, nextId, lastScan, snapshotted>>

Snooze(id) ==
    LET moved == move_item(inbox, snoozed, id)
    IN  /\ inbox' = moved.from
        /\ snoozed' = moved.to
        /\ last' = IF HasId(inbox, id)
                   THEN [op |-> "snooze", found |-> TRUE, id |-> id,
                         inbox0 |-> inbox, snoozed0 |-> snoozed]
                   ELSE [op |-> "snooze", found |-> FALSE]
        /\ UNCHANGED <<snapshots, files, nextId, lastScan, snapshotted>>

Unsnooze(id) ==
    LET moved == move_item(snoozed, inbox, id)
    IN  /\ snoozed' = moved.from
        /\ inbox' = moved.to
        /\ last' = IF last.op = "snooze" /\ last.found /\ last.id = id
                   THEN [op |-> "unsnooze", undo |-> TRUE, id |-> id,
                         inbox0 |-> last.inbox0, snoozed0 |-> last.snoozed0]
                   ELSE [op |-> "unsnooze", undo |-> FALSE]
        /\ UNCHANGED <<snapshots, files, nextId, lastScan, snapshotted>>

\* approve: the item must be in the inbox; the entry gets a new identifier
Approve(id, rationale_text, tags, verification) ==
    IF ~HasId(inbox, id)
    THEN /\ last' = [op |-> "approve", ok |-> FALSE, err |-> "change not found"]
         /\ UNCHANGED <<inbox, snoozed, snapshots, files, nextId, lastScan, snapshotted>>
    ELSE LET change == inbox[PositionOf(inbox, id)]
             rationale == Rationale_new(rationale_text)
             entry == Entry_new(nextId + 1, change.title, change.entry_type,
                                change.source, change.cmd, change.system,
                                change.detected_at, "active", tags,
                                rationale.val, verification)
         IN  IF ~TagsResult(tags).ok \/ ~rationale.ok \/ ~entry.ok
             THEN /\ last' = [op |-> "approve", ok |-> FALSE, err |-> "validation"]
                  /\ UNCHANGED <<inbox, snoozed, snapshots, files, nextId, lastScan, snapshotted>>
             ELSE /\ nextId' = nextId + 1
                  /\ files' = create(files, entry.val)
                  /\ inbox' = remove_item(inbox, id)
                  /\ last' = [op |-> "approve", ok |-> TRUE]
                  /\ UNCHANGED <<snoozed, snapshots, lastScan, snapshotted>>

\* FsVault::restore_to_inbox: get, delete, add_inbox_item
RestoreToInbox(id) ==
    \E got \in get(files, id) :
        IF ~got.ok \/ ~got.val.some
        THEN /\ last' = [op |-> "restore", ok |-> got.ok, found |-> FALSE]
             /\ UNCHANGED <<inbox, snoozed, snapshots, files, nextId, lastScan, snapshotted>>
        ELSE LET entry == got.val.val
                 change == DetectedChange(nextId + 1, None, entry.title,
                                          entry.entry_type, entry.source, entry.cmd,
                                          entry.detected_at, entry.tags)
             IN  /\ nextId' = nextId + 1
                 /\ files' \in delete(files, id)
                 /\ inbox' = add_inbox_item(inbox, change)
                 /\ last' = [op |-> "restore", ok |-> TRUE, found |-> TRUE]
                 /\ UNCHANGED <<snoozed, snapshots, lastScan, snapshotted>>

----------------------------------------------------------------------------
(* The vault under one caller *)

EmptyStore == [p \in {} |-> <<>>]

Idle == [pc |-> "idle"]

InitVault ==
    /\ inbox = <<>>
    /\ snoozed = <<>>
    /\ snapshots = [s \in Sources |-> <<>>]
    /\ files = EmptyStore
    /\ nextId = 0
    /\ last = [op |-> "init"]
    /\ lastScan = NoScan
    /\ snapshotted = {}
    /\ deleted = {}

Init == InitVault /\ proc = Idle /\ pure = Idle /\ codec = Idle /\ run = Idle /\ scan = Idle

\* the identifiers a refresh mints stay within the bound
RefreshFits(results, bound) ==
    join_results(results).ok => nextId + Len(join_results(results).val) <= bound

Next ==
    \/ \E results \in ScanResults(nextId) :
          /\ RefreshFits(results, MaxId)
          /\ Refresh(results) /\ UNCHANGED <<deleted, pure, codec, run, scan, proc>>
    \/ \E id \in Ids : Ignore(id) /\ UNCHANGED <<deleted, pure, codec, run, scan, proc>>
    \/ \E id \in Ids : Snooze(id) /\ UNCHANGED <<deleted, pure, codec, run, scan, proc>>
    \/ \E id \in Ids : Unsnooze(id) /\ UNCHANGED <<deleted, pure, codec, run, scan, proc>>
    \/ \E id \in Ids, r \in ApproveRationales :
          Approve(id, r, <<>>, None) /\ nextId' <= MaxId
          /\ UNCHANGED <<deleted, pure, codec, run, scan, proc>>
    \/ \E id \in Ids : RestoreToInbox(id) /\ nextId' <= MaxId
          /\ UNCHANGED <<deleted, pure, codec, run, scan, proc>>

Spec == Init /\ [][Next]_vars

(* The staging lists alone: refresh, ignore, snooze and unsnooze *)

NextStaging ==
    \/ \E results \in ScanResults(nextId) :
          /\ RefreshFits(results, MaxId)
          /\ Refresh(results) /\ UNCHANGED <<deleted, pure, codec, run, scan, proc>>
    \/ \E id \in Ids : Ignore(id) /\ UNCHANGED <<deleted, pure, codec, run, scan, proc>>
    \/ \E id \in Ids : Snooze(id) /\ UNCHANGED <<deleted, pure, codec, run, scan, proc>>
    \/ \E id \in Ids : Unsnooze(id) /\ UNCHANGED <<deleted, pure, codec, run, scan, proc>>

SpecStaging == Init /\ [][NextStaging]_vars

(* The inbox and the entries: refresh, ignore, approve and restore *)

\* the tool outcomes of the refreshes of SpecPromote: brew lists jq or no
\* formula and fd or no cask, npm is missing or fails
PromoteEnvs ==
    [formula : {Stdout(<<>>), Stdout(<<Jq>>)},
     cask : {NotFound, Stdout(<<Fd>>)},
     npm : {NotFound, NonZero}]

PromoteScansAt == [base \in 0..MaxPromoteId |-> {ScanEach(Detectors, env, base, base) : env \in PromoteEnvs}]

PromoteScans(base) == PromoteScansAt[base]

PromoteIds == 1..MaxPromoteId

NextPromote ==
    \/ \E results \in PromoteScans(nextId) :
          /\ RefreshFits(results, MaxPromoteId)
          /\ Refresh(results) /\ UNCHANGED <<deleted, pure, codec, run, scan, proc>>
    \/ \E id \in PromoteIds : Ignore(id) /\ UNCHANGED <<deleted, pure, codec, run, scan, proc>>
    \/ \E id \in PromoteIds, r \in ApproveRationales, tags \in ApproveTags :
          Approve(id, r, tags, None) /\ nextId' <= MaxPromoteId
          /\ UNCHANGED <<deleted, pure, codec, run, scan, proc>>
    \/ \E id \in PromoteIds : RestoreToInbox(id) /\ nextId' <= MaxPromoteId
          /\ UNCHANGED <<deleted, pure, codec, run, scan, proc>>

SpecPromote == Init /\ [][NextPromote]_vars

(* Every operation of the review, over the tool outcomes of PromoteEnvs *)

NextReview ==
    \/ \E results \in PromoteScans(nextId) :
          /\ RefreshFits(results, MaxId)
          /\ Refresh(results) /\ UNCHANGED <<deleted, pure, codec, run, scan, proc>>
    \/ \E id \in Ids : Ignore(id) /\ UNCHANGED <<deleted, pure, codec, run, scan, proc>>
    \/ \E id \in Ids : Snooze(id) /\ UNCHANGED <<deleted, pure, codec, run, scan, proc>>
    \/ \E id \in Ids : Unsnooze(id) /\ UNCHANGED <<deleted, pure, codec, run, scan, proc>>
    \/ \E id \in Ids, r \in ApproveRationales :
          Approve(id, r, <<>>, None) /\ nextId' <= MaxId
          /\ UNCHANGED <<deleted, pure, codec, run, scan, proc>>
    \/ \E id \in Ids : RestoreToInbox(id) /\ nextId' <= MaxId
          /\ UNCHANGED <<deleted, pure, codec, run, scan, proc>>

SpecReview == Init /\ [][NextReview]_vars

----------------------------------------------------------------------------
(* diff_changes and append_unique on bounded lists *)

PureKeys == {<<Homebrew, Jq>>, <<Homebrew, Fd>>, <<Npm, Jq>>}

PureItems ==
    {DetectedChange(id, None, k[2], "package", k[1], <<"install ">> \o k[2], 0, <<>>) :
        id \in 1..2, k \in PureKeys}

PureLists == SeqsUpTo(PureItems, MaxPureLen)

InitPure ==
    /\ InitVault /\ proc = Idle /\ codec = Idle /\ run = Idle /\ scan = Idle
    /\ pure \in {[pc |-> "args", a |-> a, b |-> b] : a \in PureLists, b \in PureLists}

\* previous = a, current = b; and the diff of b against itself
CallDiff ==
    /\ pure.pc = "args"
    /\ pure' = [pc |-> "diff", a |-> pure.a, b |-> pure.b,
                out |-> diff_changes(pure.a, pure.b),
                self |-> diff_changes(pure.b, pure.b)]

\* target = a, incoming = b; and the same batch appended once more
CallAppend ==
    /\ pure.pc = "args"
    /\ pure' = [pc |-> "append", a |-> pure.a, b |-> pure.b,
                out |-> append_unique(pure.a, pure.b),
                again |-> append_unique(append_unique(pure.a, pure.b), pure.b)]

VaultIdle == UNCHANGED <<inbox, snoozed, snapshots, files, nextId, last, lastScan, snapshotted,
                         deleted>>

NextPure ==
    \/ CallDiff /\ VaultIdle /\ UNCHANGED <<codec, run, scan, proc>>
    \/ CallAppend /\ VaultIdle /\ UNCHANGED <<codec, run, scan, proc>>

SpecPure == InitPure /\ [][NextPure]_vars

----------------------------------------------------------------------------
(* The repository called directly: create, update and delete of entries *)

Manual == <<"manual">>

\* the entries given to the store: jq without a verification text, fd with one
StoreEntries ==
    {Entry_new(id, title, "package", Manual, <<"brew install ">> \o title, System, 0,
               "active", <<>>, rationale,
               IF title = Jq THEN None ELSE Some(<<"v">>)).val :
        id \in 1..MaxStoreId, title \in {Jq, Fd}, rationale \in {<<"w">>}}

StagingIdle == UNCHANGED <<inbox, snoozed, snapshots, nextId, lastScan, snapshotted>>

Create(entry) ==
    /\ files' = create(files, entry)
    /\ deleted' = deleted \ {entry.id}
    /\ last' = [op |-> "create", found |-> FindEntryPaths(files, entry.id) # {}]
    /\ StagingIdle

Update(entry) ==
    /\ files' \in update(files, entry)
    /\ deleted' = deleted \ {entry.id}
    /\ last' = [op |-> "update", found |-> FindEntryPaths(files, entry.id) # {}]
    /\ StagingIdle

\* delete returns Ok whether or not a file was found
Delete(id) ==
    /\ files' \in delete(files, id)
    /\ deleted' = deleted \cup {id}
    /\ last' = [op |-> "delete", found |-> FindEntryPaths(files, id) # {}]
    /\ StagingIdle

NextStore ==
    \/ \E entry \in StoreEntries : Create(entry) /\ UNCHANGED <<pure, codec, run, scan, proc>>
    \/ \E entry \in StoreEntries : Update(entry) /\ UNCHANGED <<pure, codec, run, scan, proc>>
    \/ \E id \in 1..MaxStoreId : Delete(id) /\ UNCHANGED <<pure, codec, run, scan, proc>>

SpecStore == Init /\ [][NextStore]_vars

----------------------------------------------------------------------------
(* The library: capture, edits of a rationale, delete, and edits made to  *)
(* the entry files outside the program.                                    *)

CaptureTitles == {Jq, Fd, <<" ">>}
CaptureSources == {Manual, <<>>}
CaptureCmds == {None, Some(<<"\n">>)}
CaptureRationales == {<<"w">>}

\* capture_entry: Rationale::new, Entry::new, create
Capture(title, rationale_text, source, cmd) ==
    LET rationale == Rationale_new(rationale_text)
        entry == Entry_new(nextId + 1, title, "other", source,
                           IF cmd.some THEN cmd.val ELSE <<"manual entry">>,
                           System, nextId, "active", <<>>, rationale.val, None)
    IN  IF ~rationale.ok \/ ~entry.ok
        THEN /\ last' = [op |-> "capture", ok |-> FALSE, err |-> "validation"]
             /\ UNCHANGED <<files, nextId>>
        ELSE /\ nextId' = nextId + 1
             /\ files' = create(files, entry.val)
             /\ last' = [op |-> "capture", ok |-> TRUE]

\* the Library tab: the listed entry gets a new rationale and is updated
EditRationale(id, rationale_text) ==
    /\ \E listed \in list(files) :
          /\ listed.ok
          /\ \E i \in DOMAIN listed.val :
                /\ listed.val[i].id = id
                /\ Rationale_new(rationale_text).ok
                /\ files' \in update(files, [listed.val[i] EXCEPT
                                                 !.rationale = rationale_text])
    /\ last' = [op |-> "store"]
    /\ UNCHANGED nextId

DeleteEntry(id) ==
    /\ files' \in delete(files, id)
    /\ last' = [op |-> "store"]
    /\ UNCHANGED nextId

\* what an editor can leave of an entry file
DamageKinds == {"header", "unterminated", "yaml", "rationale", "title"}

\* the first n characters of t
Take(t, n) == SubSeq(t, 1, Min({n, Len(t)}))

\* the first character removed, the file cut before or after the end of the
\* frontmatter, the YAML block overwritten, the title blanked
Damaged(doc, kind) ==
    CASE kind = "header" -> [doc EXCEPT !.text = SubSeq(doc.text, 2, Len(doc.text))]
      [] kind = "unterminated" -> [doc EXCEPT !.text = Take(doc.text, Len(Header) + 1)]
      [] kind = "yaml" ->
             [doc EXCEPT !.text = [i \in DOMAIN doc.text |->
                                      IF doc.text[i] = YamlToken THEN "<bad>"
                                      ELSE doc.text[i]]]
      [] kind = "rationale" ->
             [doc EXCEPT !.text = Take(doc.text, Len(Header) + 1 + Len(Marker))]
      [] OTHER -> [doc EXCEPT !.fm.title = <<" ">>]

\* one edit of a file that was in order
EditFile(path, kind) ==
    /\ path \in DOMAIN files
    /\ parse_entry(files[path]).ok
    /\ files' = WriteFile(files, path, Damaged(files[path], kind))
    /\ last' = [op |-> "store"]
    /\ UNCHANGED nextId

LibraryIdle == UNCHANGED <<inbox, snoozed, snapshots, lastScan, snapshotted, deleted,
                           pure, codec, run, scan, proc>>

LibraryIds == 1..MaxStoreId

LibraryPaths ==
    {entry_path(Entry_new(id, title, "other", Manual, <<"manual entry">>, System, 0,
                          "active", <<>>, <<"w">>, None).val) :
        id \in LibraryIds, title \in {Jq, Fd}}

NextLibrary ==
    \/ \E title \in CaptureTitles, r \in CaptureRationales, source \in CaptureSources,
          cmd \in CaptureCmds :
          Capture(title, r, source, cmd) /\ nextId' <= MaxStoreId /\ LibraryIdle
    \/ \E id \in LibraryIds, r \in {<<"x">>} : EditRationale(id, r) /\ LibraryIdle
    \/ \E id \in LibraryIds : DeleteEntry(id) /\ LibraryIdle
    \/ \E path \in LibraryPaths, kind \in DamageKinds : EditFile(path, kind) /\ LibraryIdle

SpecLibrary == Init /\ [][NextLibrary]_vars

(* Every writer of entry files next to the staging lists: refresh, ignore,  *)
(* snooze, approve, capture and the edit of a rationale.                    *)

\* the tool outcomes of the refreshes of SpecEntries: brew lists jq or no
\* formula, and no cask; npm is missing
EntriesEnvs ==
    [formula : {Stdout(<<>>), Stdout(<<Jq>>)}, cask : {Stdout(<<>>)}, npm : {NotFound}]

EntriesScans(base) == {ScanEach(Detectors, env, base, base) : env \in EntriesEnvs}

NextEntries ==
    \/ \E results \in EntriesScans(nextId) :
          /\ RefreshFits(results, MaxId)
          /\ Refresh(results) /\ UNCHANGED <<deleted, pure, codec, run, scan, proc>>
    \/ \E id \in Ids : Ignore(id) /\ UNCHANGED <<deleted, pure, codec, run, scan, proc>>
    \/ \E id \in Ids : Snooze(id) /\ UNCHANGED <<deleted, pure, codec, run, scan, proc>>
    \/ \E id \in Ids, r \in ApproveRationales :
          Approve(id, r, <<>>, None) /\ nextId' <= MaxId
          /\ UNCHANGED <<deleted, pure, codec, run, scan, proc>>
    \/ \E title \in {Fd, <<" ">>} :
          Capture(title, <<"w">>, Manual, None) /\ nextId' <= MaxId /\ LibraryIdle
    \/ \E id \in Ids : EditRationale(id, <<"x">>) /\ LibraryIdle

SpecEntries == Init /\ [][NextEntries]_vars

(* The capture command of sv-cli next to refreshes: the --source option is *)
(* any text, "manual" when it is left out.                                  *)

CliSources == {Manual, <<>>, Homebrew}

NextCapture ==
    \/ \E results \in EntriesScans(nextId) :
          /\ RefreshFits(results, MaxId)
          /\ Refresh(results) /\ UNCHANGED <<deleted, pure, codec, run, scan, proc>>
    \/ \E title \in CaptureTitles, source \in CliSources, cmd \in CaptureCmds :
          Capture(title, <<"w">>, source, cmd) /\ nextId' <= MaxId /\ LibraryIdle

SpecCapture == Init /\ [][NextCapture]_vars

----------------------------------------------------------------------------
(* render_entry and parse_entry on bounded entries *)

TextAlphabet == {"a", " ", "\n", "#", "-"}

RationaleTexts == {t \in SeqsUpTo(TextAlphabet, MaxText) : Rationale_new(t).ok}

Verifications == {None} \cup {Some(t) : t \in SeqsUpTo({"a", " "}, 2)}

CodecEntries ==
    {Entry_new(1, Jq, "package", Homebrew, <<"brew install ">> \o Jq, System, 0,
               "active", <<<<"package">>>>, Rationale_new(r).val, v).val :
        r \in RationaleTexts, v \in Verifications}

InitCodec ==
    /\ InitVault /\ proc = Idle /\ pure = Idle /\ run = Idle /\ scan = Idle
    /\ codec \in {[pc |-> "entry", entry |-> e] : e \in CodecEntries}

Render ==
    /\ codec.pc = "entry"
    /\ codec' = [pc |-> "rendered", entry |-> codec.entry, doc |-> render_entry(codec.entry)]

Parse ==
    /\ codec.pc = "rendered"
    /\ codec' = [pc |-> "parsed", entry |-> codec.entry, doc |-> codec.doc,
                 parsed |-> parse_entry(codec.doc)]

NextCodec ==
    \/ Render /\ VaultIdle /\ UNCHANGED <<pure, run, scan, proc>>
    \/ Parse /\ VaultIdle /\ UNCHANGED <<pure, run, scan, proc>>

SpecCodec == InitCodec /\ [][NextCodec]_vars

----------------------------------------------------------------------------
(* The constructors of sv-core on bounded texts *)

ValueTexts == SeqsUpTo(TextAlphabet, MaxText)

\* title, source and cmd given to Entry::new
FieldTexts == {<<>>, <<" ">>, <<"\n", " ">>, Jq, <<" ">> \o Fd}

InitValue ==
    /\ InitVault /\ proc = Idle /\ codec = Idle /\ run = Idle /\ scan = Idle
    /\ pure \in {[pc |-> "text", text |-> t] : t \in ValueTexts}

NewRationale ==
    /\ pure.pc = "text"
    /\ pure' = [pc |-> "rationale", text |-> pure.text, res |-> Rationale_new(pure.text)]

NewTag ==
    /\ pure.pc = "text"
    /\ pure' = [pc |-> "tag", text |-> pure.text, res |-> Tag_new(pure.text)]

NewEntry(title, source, cmd) ==
    /\ pure.pc = "text"
    /\ Rationale_new(pure.text).ok
    /\ pure' = [pc |-> "entry", title |-> title, source |-> source, cmd |-> cmd,
                res |-> Entry_new(1, title, "package", source, cmd, System, 0, "active",
                                  <<>>, pure.text, None)]

NextValue ==
    \/ NewRationale /\ VaultIdle /\ UNCHANGED <<codec, run, scan, proc>>
    \/ NewTag /\ VaultIdle /\ UNCHANGED <<codec, run, scan, proc>>
    \/ \E title \in FieldTexts, source \in FieldTexts, cmd \in FieldTexts :
          NewEntry(title, source, cmd) /\ VaultIdle /\ UNCHANGED <<codec, run, scan, proc>>

SpecValue == InitValue /\ [][NextValue]_vars

----------------------------------------------------------------------------
(* split_columns on bounded lines *)

ColumnAlphabet == {"a", " ", "\t"}

InitColumns ==
    /\ InitVault /\ proc = Idle /\ codec = Idle /\ run = Idle /\ scan = Idle
    /\ pure \in {[pc |-> "line", line |-> l] : l \in SeqsUpTo(ColumnAlphabet, MaxLineLen)}

SplitColumns ==
    /\ pure.pc = "line"
    /\ pure' = [pc |-> "columns", line |-> pure.line, columns |-> split_columns(pure.line)]

NextColumns == SplitColumns /\ VaultIdle /\ UNCHANGED <<codec, run, scan, proc>>

SpecColumns == InitColumns /\ [][NextColumns]_vars

----------------------------------------------------------------------------
(* run_detectors, one step at a time: a blocking task per detector, then   *)
(* the handles awaited in the order they were pushed.                      *)

JoinErr == [ok |-> FALSE, err |-> "storage", from |-> "join"]
Pending == [ok |-> FALSE, err |-> "pending"]

\* the detectors handed to run_detectors, and what their tools do
RunDetectors == <<Homebrew, Npm, Cargo>>

CargoLine == {Jq \o <<" ", "v", ":">>, <<" ", " ">> \o Fd, <<>>}

CargoOutcomes == {NotFound, NonZero} \cup {Stdout(l) : l \in SeqsUpTo(CargoLine, MaxLines)}

RunEnvs ==
    [formula : FormulaOutcomes, cask : CaskOutcomes, npm : NpmOutcomes,
     cargo : CargoOutcomes]

InitRun ==
    /\ InitVault /\ proc = Idle /\ pure = Idle /\ codec = Idle /\ scan = Idle
    /\ run \in {[pc |-> "spawn", env |-> env,
                 tasks |-> [i \in DOMAIN RunDetectors |-> [st |-> "unspawned"]],
                 handles |-> 0, joined |-> 0, all_changes |-> <<>>,
                 result |-> Pending] : env \in RunEnvs}

\* a loop that starts a scan only after the one before it has finished
SpawnInTurn ==
    /\ run.pc = "spawn"
    /\ run.handles > 0 => run.tasks[run.handles].st = "finished"
    /\ LET i == run.handles + 1
       IN  run' = [run EXCEPT !.handles = i,
                              !.tasks[i] = [st |-> "running"],
                              !.pc = IF i = Len(RunDetectors) THEN "join" ELSE "spawn"]
    /\ UNCHANGED nextId

\* handles.push(tokio::task::spawn_blocking(move || detector.scan()))
Spawn ==
    /\ run.pc = "spawn"
    /\ LET i == run.handles + 1
       IN  run' = [run EXCEPT !.handles = i,
                              !.tasks[i] = [st |-> "running"],
                              !.pc = IF i = Len(RunDetectors) THEN "join" ELSE "spawn"]
    /\ UNCHANGED nextId

\* a task runs its detector's scan to the end
TaskScan(i) ==
    /\ run.tasks[i].st = "running"
    /\ LET res == Scan(RunDetectors[i], run.env, nextId, nextId)
       IN  /\ run' = [run EXCEPT !.tasks[i] = [st |-> "finished", res |-> res]]
           /\ nextId' = nextId + Len(ChangesIn(res))

\* a task panics inside scan
TaskPanic(i) ==
    /\ run.tasks[i].st = "running"
    /\ run' = [run EXCEPT !.tasks[i] = [st |-> "panicked"]]
    /\ UNCHANGED nextId

\* one pass of the join loop that lets a failed task go by
await_handle_skipping(all_changes, task) ==
    IF task.st = "panicked" \/ ~task.res.ok
    THEN [returned |-> FALSE, all_changes |-> all_changes]
    ELSE [returned |-> FALSE, all_changes |-> all_changes \o task.res.val]

\* one pass of the join loop: handle.await.map_err(..)?? then extend
await_handle(all_changes, task) ==
    IF task.st = "panicked" THEN [returned |-> TRUE, result |-> JoinErr]
    ELSE IF ~task.res.ok THEN [returned |-> TRUE, result |-> task.res]
    ELSE [returned |-> FALSE, all_changes |-> all_changes \o task.res.val]

\* a join loop that awaits the handles from the last one pushed
JoinFromLast ==
    /\ run.pc = "join"
    /\ LET i == Len(RunDetectors) - run.joined
           task == run.tasks[i]
       IN  /\ task.st \in {"finished", "panicked"}
           /\ LET step == await_handle(run.all_changes, task)
              IN  run' = IF step.returned
                         THEN [run EXCEPT !.pc = "done", !.result = step.result]
                         ELSE IF i = 1
                         THEN [run EXCEPT !.pc = "done", !.joined = @ + 1,
                                          !.all_changes = step.all_changes,
                                          !.result = Ok(step.all_changes)]
                         ELSE [run EXCEPT !.joined = @ + 1,
                                          !.all_changes = step.all_changes]
    /\ UNCHANGED nextId

Join ==
    /\ run.pc = "join"
    /\ LET i == run.joined + 1
           task == run.tasks[i]
       IN  /\ task.st \in {"finished", "panicked"}
           /\ LET step == await_handle(run.all_changes, task)
              IN  run' = IF step.returned
                         THEN [run EXCEPT !.pc = "done", !.result = step.result]
                         ELSE IF i = Len(RunDetectors)
                         THEN [run EXCEPT !.pc = "done", !.joined = i,
                                          !.all_changes = step.all_changes,
                                          !.result = Ok(step.all_changes)]
                         ELSE [run EXCEPT !.joined = i,
                                          !.all_changes = step.all_changes]
    /\ UNCHANGED nextId

RunIdle == UNCHANGED <<inbox, snoozed, snapshots, files, last, lastScan, snapshotted,
                       deleted, pure, codec, scan, proc>>

NextRun ==
    \/ Spawn /\ RunIdle
    \/ \E i \in DOMAIN RunDetectors : TaskScan(i) /\ RunIdle
    \/ \E i \in DOMAIN RunDetectors : TaskPanic(i) /\ RunIdle
    \/ Join /\ RunIdle

SpecRun == InitRun /\ [][NextRun]_vars

\* the tool outcomes of the runs of SpecRunLast: brew fails or lists jq, npm
\* fails or lists nothing, cargo is missing or lists jq
LastEnvs ==
    [formula : {NonZero, Stdout(<<Jq>>)},
     cask : {NotFound},
     npm : {NonZero, Stdout(<<NpmRoot>>)},
     cargo : {NotFound, Stdout(<<Jq \o <<" ", "v", ":">>>>)}]

InitRunLast ==
    /\ InitVault /\ proc = Idle /\ pure = Idle /\ codec = Idle /\ scan = Idle
    /\ run \in {[pc |-> "spawn", env |-> env,
                 tasks |-> [i \in DOMAIN RunDetectors |-> [st |-> "unspawned"]],
                 handles |-> 0, joined |-> 0, all_changes |-> <<>>,
                 result |-> Pending] : env \in LastEnvs}

\* The spawn loop runs on, and the blocking pool gives the task of the last
\* detector a thread of its own; the other tasks may block for ever.
SpecRunLast ==
    /\ InitRunLast /\ [][NextRun]_vars
    /\ WF_vars(Spawn /\ RunIdle)
    /\ WF_vars((TaskScan(Len(RunDetectors)) \/ TaskPanic(Len(RunDetectors))) /\ RunIdle)

----------------------------------------------------------------------------
(* One detector's scan against what its tools and directories hold *)

ScanDetectors == {Homebrew, Npm, Cargo, Applications}

NoAppDir == [exists |-> FALSE, names |-> <<>>]
AppDir(names) == [exists |-> TRUE, names |-> names]

AppOutcomes == {NoAppDir} \cup {AppDir(l) : l \in SeqsUpTo({Fd}, MaxLines)}

ScanEnvs ==
    [formula : FormulaOutcomes, cask : CaskOutcomes, npm : NpmOutcomes,
     cargo : CargoOutcomes, apps : AppOutcomes]

InitScan ==
    /\ InitVault /\ proc = Idle /\ pure = Idle /\ codec = Idle /\ run = Idle
    /\ scan \in {[pc |-> "ready", detector |-> d, env |-> env] :
                    d \in ScanDetectors, env \in ScanEnvs}

ScanDetector ==
    /\ scan.pc = "ready"
    /\ LET res == Scan(scan.detector, scan.env, nextId, nextId)
       IN  /\ scan' = [pc |-> "scanned", detector |-> scan.detector,
                       env |-> scan.env, res |-> res]
           /\ nextId' = nextId + Len(ChangesIn(res))
    /\ UNCHANGED <<inbox, snoozed, snapshots, files, last, lastScan, snapshotted,
                   deleted, pure, codec, run, proc>>

NextScan == ScanDetector

SpecScan == InitScan /\ [][NextScan]_vars

----------------------------------------------------------------------------
(* The detectors of every platform: Detector::name, the OS each scan is     *)
(* gated to, the source each scan writes into its changes, and the list     *)
(* default_detectors builds for an OS.                                       *)

OperatingSystems == {"macos", "linux", "windows", "freebsd"}

MacDetectors == {"MacDefaultsDetector", "AppDetector"}

LinuxDetectors ==
    {"AptDetector", "DnfDetector", "YumDetector", "PacmanDetector", "FlatpakDetector",
     "SnapDetector", "DesktopAppDetector"}

WindowsDetectors ==
    {"WingetDetector", "WingetStoreDetector", "ChocolateyDetector", "ScoopDetector",
     "ProgramFilesDetector"}

UngatedDetectors ==
    {"BrewDetector", "NpmDetector", "CargoDetector", "PipDetector", "DotfileDetector"}

DetectorStructs == MacDetectors \cup LinuxDetectors \cup WindowsDetectors \cup UngatedDetectors

\* the OS the first statement of scan compares std::env::consts::OS with
os_gate(d) ==
    CASE d \in MacDetectors -> "macos"
      [] d \in LinuxDetectors -> "linux"
      [] d \in WindowsDetectors -> "windows"
      [] OTHER -> "any"

\* Detector::name
detector_name(d) ==
    CASE d = "BrewDetector" -> Homebrew
      [] d = "NpmDetector" -> Npm
      [] d = "CargoDetector" -> Cargo
      [] d = "PipDetector" -> <<"pip">>
      [] d = "DotfileDetector" -> <<"dotfiles">>
      [] d = "MacDefaultsDetector" -> <<"mac_defaults">>
      [] d = "AppDetector" -> Applications
      [] d = "AptDetector" -> <<"apt">>
      [] d = "DnfDetector" -> <<"dnf">>
      [] d = "YumDetector" -> <<"yum">>
      [] d = "PacmanDetector" -> <<"pacman">>
      [] d = "FlatpakDetector" -> <<"flatpak">>
      [] d = "SnapDetector" -> <<"snap">>
      [] d = "WingetDetector" -> <<"winget">>
      [] d = "WingetStoreDetector" -> <<"msstore">>
      [] d = "ChocolateyDetector" -> <<"chocolatey">>
      [] d = "ScoopDetector" -> <<"scoop">>
      [] d = "ProgramFilesDetector" -> <<"program_files">>
      [] OTHER -> Applications

\* the source: field of the changes the scan builds
stamped_source(d) ==
    CASE d = "ProgramFilesDetector" -> Applications
      [] OTHER -> detector_name(d)

\* the command the scan runs, or the directory it reads
scan_tool(d) ==
    CASE d = "BrewDetector" -> "brew"
      [] d = "NpmDetector" -> "npm"
      [] d = "CargoDetector" -> "cargo"
      [] d = "PipDetector" -> "pip"
      [] d = "DotfileDetector" -> "~"
      [] d = "MacDefaultsDetector" -> "defaults"
      [] d = "AppDetector" -> "/Applications"
      [] d = "AptDetector" -> "dpkg-query"
      [] d = "DnfDetector" -> "dnf"
      [] d = "YumDetector" -> "yum"
      [] d = "PacmanDetector" -> "pacman"
      [] d = "FlatpakDetector" -> "flatpak"
      [] d = "SnapDetector" -> "snap"
      [] d = "WingetDetector" -> "winget"
      [] d = "WingetStoreDetector" -> "winget"
      [] d = "ChocolateyDetector" -> "choco"
      [] d = "ScoopDetector" -> "scoop"
      [] d = "ProgramFilesDetector" -> "C:\\Program Files"
      [] OTHER -> "/usr/share/applications"

\* the scans that skip what they cannot read instead of returning the error
SkipsFailures ==
    {"BrewDetector", "DotfileDetector", "AppDetector", "ProgramFilesDetector",
     "DesktopAppDetector"}

\* scan of detector d on os, its tool or directory answering out: the gate,
\* then the tool, then one change per name kept
gated_scan(d, os, out, base, now) ==
    IF os_gate(d) \notin {"any", os}
    THEN [invoked |-> {}, res |-> Ok(<<>>)]
    ELSE LET output == run_command(scan_tool(d), out)
         IN  [invoked |-> {scan_tool(d)},
              res |-> IF output.ok
                      THEN Ok(ChangesOf(TrimmedLines(output.val), base, now, "package",
                                        stamped_source(d), <<"install ">>, <<"package">>))
                      ELSE IF d \in SkipsFailures THEN Ok(<<>>) ELSE output]

\* a default_detectors that builds every detector on every OS
default_detectors_all(os) == DetectorStructs

\* default_detectors, as the set of the structs it pushes
default_detectors(os) ==
    CASE os = "macos" ->
             {"BrewDetector", "NpmDetector", "CargoDetector", "PipDetector",
              "DotfileDetector", "MacDefaultsDetector", "AppDetector"}
      [] os = "linux" ->
             {"AptDetector", "DnfDetector", "YumDetector", "PacmanDetector",
              "FlatpakDetector", "SnapDetector", "DesktopAppDetector", "NpmDetector",
              "CargoDetector", "PipDetector", "DotfileDetector"}
      [] os = "windows" ->
             {"WingetDetector", "WingetStoreDetector", "ChocolateyDetector",
              "ScoopDetector", "ProgramFilesDetector", "NpmDetector", "CargoDetector",
              "PipDetector"}
      [] OTHER -> {"NpmDetector", "CargoDetector", "PipDetector"}

PlatformOutcomes == {NotFound, NonZero} \cup {Stdout(l) : l \in SeqsUpTo({Jq}, MaxLines)}

\* a detector, from default_detectors(os) or built by the caller, before its
\* scan on os
InitPlatform ==
    /\ InitVault /\ proc = Idle /\ pure = Idle /\ codec = Idle /\ run = Idle
    /\ scan \in {[pc |-> "ready", os |-> os, detector |-> d, out |-> out,
                  listed |-> d \in default_detectors(os)] :
                    os \in OperatingSystems, d \in DetectorStructs,
                    out \in PlatformOutcomes}

PlatformScan ==
    /\ scan.pc = "ready"
    /\ LET scanned == gated_scan(scan.detector, scan.os, scan.out, nextId, nextId)
       IN  /\ scan' = [scan EXCEPT !.pc = "scanned"] @@
                       [invoked |-> scanned.invoked, res |-> scanned.res]
           /\ nextId' = nextId + Len(ChangesIn(scanned.res))
    /\ UNCHANGED <<inbox, snoozed, snapshots, files, last, lastScan, snapshotted,
                   deleted, pure, codec, run, proc>>

NextPlatform == PlatformScan

SpecPlatform == InitPlatform /\ [][NextPlatform]_vars

----------------------------------------------------------------------------
(* One refresh, statement by statement: inbox(vault, true) of sv-cli and    *)
(* handle_refresh of sv-tui, next to an edit made to inbox.yaml outside the *)
(* program. proc.parses tells whether the text of inbox.yaml is YAML that   *)
(* serde_yaml accepts; inbox is the list it holds when it is.               *)

Frontends == {"cli", "tui"}

\* FsVault::load_inbox
load_inbox(items, parses) == IF parses THEN Ok(items) ELSE StorageErr

\* `vault.load_inbox()?` in sv-cli, `vault.load_inbox().unwrap_or_default()`
\* in sv-tui
load_inbox_in(ui, items, parses) ==
    IF ui = "tui" /\ ~parses THEN Ok(<<>>) ELSE load_inbox(items, parses)

RefreshIdle(parses, ui, result, trace) ==
    [pc |-> "idle", parses |-> parses, ui |-> ui, result |-> result, trace |-> trace,
     changes |-> <<>>, groups |-> <<>>, previous |-> <<>>, diff |-> <<>>,
     new_changes |-> <<>>, local |-> <<>>]

InitSteps ==
    /\ InitVault /\ pure = Idle /\ codec = Idle /\ run = Idle /\ scan = Idle
    /\ proc = RefreshIdle(TRUE, "cli", Ok(<<>>), <<>>)

StepsIdle == UNCHANGED <<snoozed, files, last, lastScan, snapshotted, deleted, pure,
                         codec, run, scan>>

\* run_detectors(detectors) and its `?`
StartRefresh(ui, results) ==
    /\ proc.pc = "idle"
    /\ LET joined == join_results(results)
       IN  IF ~joined.ok
           THEN /\ proc' = RefreshIdle(proc.parses, ui, joined, <<>>)
                /\ UNCHANGED nextId
           ELSE /\ proc' = [RefreshIdle(proc.parses, ui, Pending, <<>>) EXCEPT
                               !.pc = "load_inbox", !.changes = joined.val]
                /\ nextId' = nextId + Len(joined.val)
    /\ UNCHANGED <<inbox, snapshots>>

\* let mut inbox = vault.load_inbox()...; the groups of group_by_source
LoadInbox ==
    /\ proc.pc = "load_inbox"
    /\ LET loaded == load_inbox_in(proc.ui, inbox, proc.parses)
           groups == GroupOrder(SourceOrder, proc.changes)
       IN  proc' = IF ~loaded.ok
                   THEN RefreshIdle(proc.parses, proc.ui, loaded, proc.trace)
                   ELSE [proc EXCEPT !.local = loaded.val, !.groups = groups,
                                     !.pc = IF groups = <<>> THEN "merge"
                                            ELSE "load_snapshot"]
    /\ UNCHANGED <<inbox, snapshots, nextId>>

\* let previous = vault.load_detector_snapshot(&source)?
LoadSnapshot ==
    /\ proc.pc = "load_snapshot"
    /\ proc' = [proc EXCEPT !.previous = snapshots[Head(proc.groups)],
                            !.trace = Append(@, [ev |-> "read", source |-> Head(proc.groups)]),
                            !.pc = "diff"]
    /\ UNCHANGED <<inbox, snapshots, nextId>>

\* let diff = diff_changes(&previous, &group)
DiffGroup ==
    /\ proc.pc = "diff"
    /\ proc' = [proc EXCEPT !.diff = diff_changes(proc.previous,
                                          group_by_source(proc.changes, Head(proc.groups))),
                            !.trace = Append(@, [ev |-> "diff", source |-> Head(proc.groups)]),
                            !.pc = "save_snapshot"]
    /\ UNCHANGED <<inbox, snapshots, nextId>>

\* a loop body that also saves the inbox after each source
SaveSnapshotAndInbox ==
    /\ proc.pc = "save_snapshot"
    /\ snapshots' = [snapshots EXCEPT ![Head(proc.groups)] =
                         group_by_source(proc.changes, Head(proc.groups))]
    /\ inbox' = inbox_after(proc.local, proc.new_changes \o proc.diff)
    /\ proc' = [proc EXCEPT !.new_changes = @ \o proc.diff,
                            !.groups = Tail(@),
                            !.trace = Append(@, [ev |-> "write", source |-> Head(proc.groups)]),
                            !.pc = IF Tail(proc.groups) = <<>> THEN "merge"
                                   ELSE "load_snapshot"]
    /\ UNCHANGED nextId

\* vault.save_detector_snapshot(&source, &group)?; new_changes.extend(diff)
SaveSnapshot ==
    /\ proc.pc = "save_snapshot"
    /\ snapshots' = [snapshots EXCEPT ![Head(proc.groups)] =
                         group_by_source(proc.changes, Head(proc.groups))]
    /\ proc' = [proc EXCEPT !.new_changes = @ \o proc.diff,
                            !.groups = Tail(@),
                            !.trace = Append(@, [ev |-> "write", source |-> Head(proc.groups)]),
                            !.pc = IF Tail(proc.groups) = <<>> THEN "merge"
                                   ELSE "load_snapshot"]
    /\ UNCHANGED <<inbox, nextId>>

\* if !new_changes.is_empty() { append_unique; save_inbox }
MergeInbox ==
    /\ proc.pc = "merge"
    /\ IF proc.new_changes # <<>>
       THEN /\ inbox' = append_unique(proc.local, proc.new_changes)
            /\ proc' = RefreshIdle(TRUE, proc.ui, Ok(<<>>),
                                   Append(proc.trace, [ev |-> "inbox", source |-> <<>>]))
       ELSE /\ proc' = RefreshIdle(proc.parses, proc.ui, Ok(<<>>), proc.trace)
            /\ UNCHANGED inbox
    /\ UNCHANGED <<snapshots, nextId>>

\* inbox.yaml is left with text that is no YAML list of changes
EditInboxFile ==
    /\ proc.pc = "idle"
    /\ proc.parses
    /\ inbox # <<>>
    /\ proc' = [proc EXCEPT !.parses = FALSE]
    /\ UNCHANGED <<inbox, snapshots, nextId>>

NextSteps ==
    \/ \E ui \in Frontends, results \in ScanResults(nextId) :
          RefreshFits(results, MaxId) /\ StartRefresh(ui, results) /\ StepsIdle
    \/ LoadInbox /\ StepsIdle
    \/ LoadSnapshot /\ StepsIdle
    \/ DiffGroup /\ StepsIdle
    \/ SaveSnapshot /\ StepsIdle
    \/ MergeInbox /\ StepsIdle
    \/ EditInboxFile /\ StepsIdle

SpecSteps == InitSteps /\ [][NextSteps]_vars

----------------------------------------------------------------------------
(* Two callers of add_inbox_item and remove_inbox_item on one vault: each   *)
(* call is load_inbox, the change of the loaded list, save_inbox, and no    *)
(* lock is held between the load and the save.                              *)

Callers == {1, 2}

\* the list after the mutation of one call
mutated(items, op) ==
    IF op.kind = "add" THEN add_inbox_item(items, op.item) ELSE remove_item(items, op.id)

\* the calls a caller can make next: remove_inbox_item(id), or add_inbox_item
\* of an item with a fresh id
CallsAt(base) ==
    {[kind |-> "remove", id |-> id] : id \in Ids}
    \cup {[kind |-> "add",
           item |-> DetectedChange(base + 1, None, Jq, "package", Homebrew,
                                   <<"brew install ">> \o Jq, base, <<>>)]}

InitRace ==
    /\ InitVault /\ pure = Idle /\ codec = Idle /\ run = Idle /\ scan = Idle
    /\ proc = [callers |-> [c \in Callers |->
                                [pc |-> "idle", op |-> [kind |-> "none"],
                                 changes |-> <<>>, overlapped |-> FALSE]],
               expected |-> <<>>, raced |-> FALSE]

RaceIdle == UNCHANGED <<snoozed, snapshots, files, last, lastScan, snapshotted, deleted,
                        pure, codec, run, scan>>

\* a load that finds no list
CallerLoadNothing(c, op) ==
    /\ proc.callers[c].pc = "idle"
    /\ proc' = [proc EXCEPT !.callers[c] =
                    [pc |-> "loaded", op |-> op, changes |-> <<>>, overlapped |-> FALSE]]
    /\ nextId' = IF op.kind = "add" THEN nextId + 1 ELSE nextId
    /\ UNCHANGED inbox

\* let mut changes = self.load_inbox()?
CallerLoad(c, op) ==
    /\ proc.callers[c].pc = "idle"
    /\ proc' = [proc EXCEPT !.callers[c] =
                    [pc |-> "loaded", op |-> op, changes |-> inbox, overlapped |-> FALSE]]
    /\ nextId' = IF op.kind = "add" THEN nextId + 1 ELSE nextId
    /\ UNCHANGED inbox

\* changes.push(item) or changes.retain(..); self.save_inbox(&changes)
CallerSave(c) ==
    /\ proc.callers[c].pc = "loaded"
    /\ inbox' = mutated(proc.callers[c].changes, proc.callers[c].op)
    /\ proc' = [callers |-> [d \in Callers |->
                    IF d = c THEN [proc.callers[c] EXCEPT !.pc = "idle"]
                    ELSE IF proc.callers[d].pc = "loaded"
                         THEN [proc.callers[d] EXCEPT !.overlapped = TRUE]
                         ELSE proc.callers[d]],
                expected |-> mutated(proc.expected, proc.callers[c].op),
                raced |-> proc.raced \/ proc.callers[c].overlapped]
    /\ UNCHANGED nextId

NextRace ==
    \/ \E c \in Callers, op \in CallsAt(nextId) :
          CallerLoad(c, op) /\ nextId' <= MaxId /\ RaceIdle
    \/ \E c \in Callers : CallerSave(c) /\ RaceIdle

SpecRace == InitRace /\ [][NextRace]_vars

----------------------------------------------------------------------------
(* Where the vault is: SETUPVAULT_PATH, the config file that points to the  *)
(* vault, the default under the home directory.                             *)

PathTexts == {<<>>, <<" ">>, <<"/", "e">>, <<"/", "c">>}

\* config.yaml: absent, no YAML of a VaultConfig, or a VaultConfig
ConfigFiles ==
    {[kind |-> "missing", path |-> None], [kind |-> "malformed", path |-> None],
     [kind |-> "config", path |-> None]}
    \cup {[kind |-> "config", path |-> Some(t)] : t \in PathTexts}

\* std::env::var("SETUPVAULT_PATH"), dirs::config_dir(), the config file,
\* dirs::home_dir()
Surroundings ==
    [var : {None} \cup {Some(t) : t \in PathTexts}, config_dir : BOOLEAN,
     file : ConfigFiles, home : BOOLEAN]

DefaultVault == <<"~", "/", ".", "setupvault">>

\* FsVault::default_path
default_path(home) == IF home THEN Ok(DefaultVault) ELSE StorageErr

\* load_config: config_path()?, the default for a missing file, serde_yaml
load_config(config_dir, file) ==
    IF ~config_dir THEN StorageErr
    ELSE IF file.kind = "missing" THEN Ok(None)
    ELSE IF file.kind = "malformed" THEN StorageErr
    ELSE Ok(file.path)

\* a resolution that looks into the config file first
resolve_config_first(around) ==
    LET config == load_config(around.config_dir, around.file)
    IN  IF config.ok /\ config.val.some /\ Trim(config.val.val) # <<>>
        THEN Ok(config.val.val)
        ELSE IF around.var.some /\ Trim(around.var.val) # <<>>
        THEN Ok(around.var.val)
        ELSE default_path(around.home)

\* resolve_vault_path
resolve_vault_path(around) ==
    IF around.var.some /\ Trim(around.var.val) # <<>>
    THEN Ok(around.var.val)
    ELSE LET config == load_config(around.config_dir, around.file)
         IN  IF ~config.ok THEN config
             ELSE IF config.val.some /\ Trim(config.val.val) # <<>>
             THEN Ok(config.val.val)
             ELSE default_path(around.home)

InitResolve ==
    /\ InitVault /\ proc = Idle /\ codec = Idle /\ run = Idle /\ scan = Idle
    /\ pure \in {[pc |-> "around", around |-> around] : around \in Surroundings}

Resolve ==
    /\ pure.pc = "around"
    /\ pure' = [pc |-> "resolved", around |-> pure.around,
                out |-> resolve_vault_path(pure.around)]

NextResolve == Resolve /\ VaultIdle /\ UNCHANGED <<codec, run, scan, proc>>

SpecResolve == InitResolve /\ [][NextResolve]_vars

----------------------------------------------------------------------------
(* snooze_inbox_item, unsnooze_item, restore_to_inbox and approve, one file *)
(* operation at a time. A write or a removal of a file either takes place   *)
(* or fails with an I/O error that leaves the file as it was.               *)

IoOutcomes == {"done", "failed"}

MaxMoved == 2

\* a call that has returned, and how many files it had written; a
\* restore_to_inbox that has found its entry keeps the record of it
Returned(op, id, result, wrote) ==
    [pc |-> "idle", op |-> op, id |-> id, result |-> result, wrote |-> wrote,
     inbox |-> <<>>, snoozed |-> <<>>, change |-> None, entry |-> None]

InitFaults ==
    /\ InitVault /\ pure = Idle /\ codec = Idle /\ run = Idle /\ scan = Idle
    /\ proc = Returned("none", 0, Ok(<<>>), 0)

\* snooze_inbox_item: load_inbox, load_snoozed, position, push and remove
SnoozeLoad(id) ==
    /\ proc.pc = "idle"
    /\ LET moved == move_item(inbox, snoozed, id)
       IN  proc' = IF ~HasId(inbox, id) THEN Returned("snooze", id, Ok(<<>>), 0)
                   ELSE [Returned("snooze", id, Pending, 0) EXCEPT
                            !.pc = "save_snoozed", !.inbox = moved.from,
                            !.snoozed = moved.to]
    /\ UNCHANGED <<inbox, snoozed, files, nextId>>

\* unsnooze_item: load_inbox, load_snoozed, position, push and remove
UnsnoozeLoad(id) ==
    /\ proc.pc = "idle"
    /\ LET moved == move_item(snoozed, inbox, id)
       IN  proc' = IF ~HasId(snoozed, id) THEN Returned("unsnooze", id, Ok(<<>>), 0)
                   ELSE [Returned("unsnooze", id, Pending, 0) EXCEPT
                            !.pc = "save_snoozed", !.inbox = moved.to,
                            !.snoozed = moved.from]
    /\ UNCHANGED <<inbox, snoozed, files, nextId>>

\* self.save_snoozed(&snoozed)?
SaveSnoozed(io) ==
    /\ proc.pc = "save_snoozed"
    /\ IF io = "done"
       THEN /\ snoozed' = proc.snoozed
            /\ proc' = [proc EXCEPT !.pc = "save_inbox", !.wrote = @ + 1]
       ELSE /\ proc' = Returned(proc.op, proc.id, StorageErr, proc.wrote)
            /\ UNCHANGED snoozed
    /\ UNCHANGED <<inbox, files, nextId>>

\* self.save_inbox(&inbox)?
SaveInbox(io) ==
    /\ proc.pc = "save_inbox"
    /\ IF io = "done"
       THEN /\ inbox' = proc.inbox
            /\ proc' = Returned(proc.op, proc.id, Ok(<<>>), proc.wrote + 1)
       ELSE /\ proc' = Returned(proc.op, proc.id, StorageErr, proc.wrote)
            /\ UNCHANGED inbox
    /\ UNCHANGED <<snoozed, files, nextId>>

\* restore_to_inbox: self.get(id)? and the change built from the entry
RestoreGet(id) ==
    /\ proc.pc = "idle"
    /\ \E got \in get(files, id) :
          IF ~got.ok \/ ~got.val.some
          THEN /\ proc' = Returned("restore", id, IF got.ok THEN Ok(<<>>) ELSE got, 0)
               /\ UNCHANGED nextId
          ELSE LET entry == got.val.val
               IN  /\ proc' = [Returned("restore", id, Pending, 0) EXCEPT
                                  !.pc = "delete", !.entry = Some(entry),
                                  !.change = Some(DetectedChange(nextId + 1, None,
                                      entry.title, entry.entry_type, entry.source,
                                      entry.cmd, entry.detected_at, entry.tags))]
                   /\ nextId' = nextId + 1
    /\ UNCHANGED <<inbox, snoozed, files>>

\* self.delete(id)?
RestoreDelete(io) ==
    /\ proc.pc = "delete"
    /\ IF io = "done"
       THEN /\ files' \in delete(files, proc.id)
            /\ proc' = [proc EXCEPT !.pc = "add_inbox_item", !.wrote = @ + 1]
       ELSE /\ proc' = [proc EXCEPT !.pc = "idle", !.result = StorageErr]
            /\ UNCHANGED files
    /\ UNCHANGED <<inbox, snoozed, nextId>>

\* self.add_inbox_item(change)?
RestoreAdd(io) ==
    /\ proc.pc = "add_inbox_item"
    /\ IF io = "done"
       THEN /\ inbox' = add_inbox_item(inbox, proc.change.val)
            /\ proc' = [proc EXCEPT !.pc = "idle", !.result = Ok(<<>>), !.wrote = @ + 1]
       ELSE /\ proc' = [proc EXCEPT !.pc = "idle", !.result = StorageErr]
            /\ UNCHANGED inbox
    /\ UNCHANGED <<snoozed, files, nextId>>

\* approve: load_inbox, find, Entry::new
ApproveFind(id, rationale_text) ==
    /\ proc.pc = "idle"
    /\ IF ~HasId(inbox, id)
       THEN /\ proc' = Returned("approve", id,
                                [ok |-> FALSE, err |-> "change not found"], 0)
            /\ UNCHANGED nextId
       ELSE LET change == inbox[PositionOf(inbox, id)]
                rationale == Rationale_new(rationale_text)
                entry == Entry_new(nextId + 1, change.title, change.entry_type,
                                   change.source, change.cmd, change.system,
                                   change.detected_at, "active", <<>>,
                                   rationale.val, None)
            IN  IF ~rationale.ok \/ ~entry.ok
                THEN /\ proc' = Returned("approve", id, ValidationErr, 0)
                     /\ UNCHANGED nextId
                ELSE /\ proc' = [Returned("approve", id, Pending, 0) EXCEPT
                                    !.pc = "create", !.entry = Some(entry.val),
                                    !.change = Some(change)]
                     /\ nextId' = nextId + 1
    /\ UNCHANGED <<inbox, snoozed, files>>

\* a create whose failure also takes the item out of the inbox
ApproveCreateOrDrop(io) ==
    /\ proc.pc = "create"
    /\ IF io = "done"
       THEN /\ files' = create(files, proc.entry.val)
            /\ proc' = [proc EXCEPT !.pc = "remove_inbox_item", !.wrote = @ + 1]
            /\ UNCHANGED inbox
       ELSE /\ proc' = Returned(proc.op, proc.id, StorageErr, proc.wrote)
            /\ inbox' = remove_item(inbox, proc.id)
            /\ UNCHANGED files
    /\ UNCHANGED <<snoozed, nextId>>

\* vault.create(&entry).context("failed to write entry")?
ApproveCreate(io) ==
    /\ proc.pc = "create"
    /\ IF io = "done"
       THEN /\ files' = create(files, proc.entry.val)
            /\ proc' = [proc EXCEPT !.pc = "remove_inbox_item", !.wrote = @ + 1]
       ELSE /\ proc' = Returned(proc.op, proc.id, StorageErr, proc.wrote)
            /\ UNCHANGED files
    /\ UNCHANGED <<inbox, snoozed, nextId>>

\* vault.remove_inbox_item(id).context("failed to update inbox")?
ApproveRemove(io) ==
    /\ proc.pc = "remove_inbox_item"
    /\ IF io = "done"
       THEN /\ inbox' = remove_item(inbox, proc.id)
            /\ proc' = Returned(proc.op, proc.id, Ok(<<>>), proc.wrote + 1)
       ELSE /\ proc' = Returned(proc.op, proc.id, StorageErr, proc.wrote)
            /\ UNCHANGED inbox
    /\ UNCHANGED <<snoozed, files, nextId>>

FaultsIdle == UNCHANGED <<snapshots, last, lastScan, snapshotted, deleted, pure, codec,
                          run, scan>>

\* a failed snooze leaves its item in both lists, and so the lists can grow
\* without end: a move starts only while its lists stay within the bound
MoveFits == Len(proc'.inbox) <= MaxMoved /\ Len(proc'.snoozed) <= MaxMoved

NextFaults ==
    \/ \E results \in EntriesScans(nextId) :
          /\ proc.pc = "idle"
          /\ RefreshFits(results, MaxId)
          /\ Refresh(results) /\ UNCHANGED <<deleted, pure, codec, run, scan, proc>>
    \/ \E id \in Ids : SnoozeLoad(id) /\ MoveFits /\ FaultsIdle
    \/ \E id \in Ids : UnsnoozeLoad(id) /\ MoveFits /\ FaultsIdle
    \/ \E io \in IoOutcomes : SaveSnoozed(io) /\ FaultsIdle
    \/ \E io \in IoOutcomes : SaveInbox(io) /\ FaultsIdle
    \/ \E id \in Ids : RestoreGet(id) /\ nextId' <= MaxId /\ FaultsIdle
    \/ \E io \in IoOutcomes : RestoreDelete(io) /\ FaultsIdle
    \/ \E io \in IoOutcomes : RestoreAdd(io) /\ FaultsIdle
    \/ \E id \in Ids, r \in ApproveRationales :
          ApproveFind(id, r) /\ nextId' <= MaxId /\ FaultsIdle
    \/ \E io \in IoOutcomes : ApproveCreate(io) /\ FaultsIdle
    \/ \E io \in IoOutcomes : ApproveRemove(io) /\ FaultsIdle

SpecFaults == InitFaults /\ [][NextFaults]_vars

----------------------------------------------------------------------------
(* parse_winget_list on bounded outputs *)

MaxWingetLines == 3

Winget == <<"winget">>

\* str::to_lowercase, on the letters of the lines below
to_lowercase(t) ==
    [i \in DOMAIN t |->
        CASE t[i] = "N" -> "n" [] t[i] = "I" -> "i" [] OTHER -> to_ascii_lowercase(t[i])]

\* the loop of parse_winget_list over output.lines(): blank lines, lines that
\* contain "---", header lines, lines before the first "---" and lines of
\* fewer than two columns push nothing
RECURSIVE WingetLoop(_, _, _, _, _, _)
WingetLoop(lines, started, changes, source, base, now) ==
    IF lines = <<>> THEN changes
    ELSE LET line == TrimEnd(Head(lines))
             rest == Tail(lines)
             cols == split_columns(line)
             cmd == IF cols[2] # <<>> THEN <<"winget install --id ">> \o cols[2]
                    ELSE <<"winget install ">> \o cols[1]
         IN  IF Trim(line) = <<>>
             THEN WingetLoop(rest, started, changes, source, base, now)
             ELSE IF Contains(line, <<"-", "-", "-">>)
             THEN WingetLoop(rest, TRUE, changes, source, base, now)
             ELSE IF /\ StartsWith(to_lowercase(line), <<"n", "a", "m", "e">>)
                     /\ Contains(to_lowercase(line), <<"i", "d">>)
             THEN WingetLoop(rest, started, changes, source, base, now)
             ELSE IF ~started
             THEN WingetLoop(rest, started, changes, source, base, now)
             ELSE IF Len(cols) < 2
             THEN WingetLoop(rest, started, changes, source, base, now)
             ELSE WingetLoop(rest, started,
                             Append(changes,
                                    DetectedChange(base + Len(changes) + 1, None, cols[1],
                                                   "application", source, cmd, now,
                                                   <<<<"application">>>>)),
                             source, base, now)

parse_winget_list(output, source, base, now) ==
    Ok(WingetLoop(output, FALSE, <<>>, source, base, now))

\* lines of `winget list`: the header, the separator, a blank line, packages
\* of two, one and three columns, and a package with "---" in its name
WingetLines ==
    {<<"N", "a", "m", "e", " ", " ", "I", "d">>,
     <<"-", "-", "-", "-">>,
     <<" ">>,
     <<"j", "q", " ", " ", "f", "d", " ">>,
     <<"j", "q">>,
     <<"f", "d", " ", " ", "a", " ", "b", " ", " ", "1">>,
     <<"a", "-", "-", "-", "b", " ", " ", "f", "d">>}

InitWinget ==
    /\ InitVault /\ proc = Idle /\ codec = Idle /\ run = Idle /\ scan = Idle
    /\ pure \in {[pc |-> "output", output |-> o] : o \in SeqsUpTo(WingetLines, MaxWingetLines)}

ParseWinget ==
    /\ pure.pc = "output"
    /\ pure' = [pc |-> "changes", output |-> pure.output,
                changes |-> parse_winget_list(pure.output, Winget, 0, 0)]

NextWinget == ParseWinget /\ VaultIdle /\ UNCHANGED <<codec, run, scan, proc>>

SpecWinget == InitWinget /\ [][NextWinget]_vars

----------------------------------------------------------------------------
(* Properties of diff_changes and append_unique *)

\* out holds exactly the elements of src at the positions idx, in src's order
IsSelection(out, src, idx) ==
    /\ Len(out) = Cardinality(idx)
    /\ \A i \in idx : out[Cardinality({j \in idx : j <= i})] = src[i]

\* C1: diff_changes(S, C) is the items of C whose (source, title) is carried
\* by no item of S, in the order they have in C, whatever the other fields
\* are; the diff of C against itself is empty.
C1_DiffIsNewKeysInOrder ==
    pure.pc = "diff" =>
        /\ IsSelection(pure.out, pure.b,
                       {i \in DOMAIN pure.b :
                           \A j \in DOMAIN pure.a : Key(pure.a[j]) # Key(pure.b[i])})
        /\ pure.self = <<>>

\* C1 witness: a diff that kept one item and dropped another whose key is in
\* the snapshot under a different id.
C1_Witness ==
    /\ pure.pc = "diff"
    /\ pure.out # <<>>
    /\ \E i \in DOMAIN pure.b, j \in DOMAIN pure.a :
          /\ Key(pure.a[j]) = Key(pure.b[i])
          /\ pure.a[j].id # pure.b[i].id

\* C2: append_unique(target, incoming) keeps the items of target at their
\* positions, appends the first occurrence of each key that target lacks in
\* the order of incoming, grows by the number of distinct new keys, and
\* appending the same batch again changes nothing.
C2_AppendUniqueDedups ==
    pure.pc = "append" =>
        LET a == pure.a
            b == pure.b
            out == pure.out
            fresh == {i \in DOMAIN b :
                         /\ \A j \in DOMAIN a : Key(a[j]) # Key(b[i])
                         /\ \A j \in 1..(i - 1) : Key(b[j]) # Key(b[i])}
        IN  /\ Len(out) >= Len(a)
            /\ SubSeq(out, 1, Len(a)) = a
            /\ Len(out) = Len(a) + Cardinality(Keys(b) \ Keys(a))
            /\ IsSelection(SubSeq(out, Len(a) + 1, Len(out)), b, fresh)
            /\ pure.again = out

\* C2 witness: a batch that carries the same new key twice.
C2_Witness ==
    /\ pure.pc = "append"
    /\ Len(pure.out) > Len(pure.a)
    /\ \E i, j \in DOMAIN pure.b :
          /\ i < j
          /\ Key(pure.b[i]) = Key(pure.b[j])
          /\ Key(pure.b[i]) \notin Keys(pure.a)

----------------------------------------------------------------------------
(* Properties of the staging lists *)

RefreshSucceeded == last'.op = "refresh" /\ last'.ok

\* C3: a refresh whose detectors return the same items as the preceding
\* successful refresh has an empty diff and leaves the inbox as it is; a
\* refresh of a source whose snapshot is empty puts every scanned item of that
\* source into the inbox.
C3_SameScanAddsNothing ==
    [][RefreshSucceeded =>
          /\ last'.same => (last'.diff = {} /\ inbox' = inbox)
          /\ \A k \in lastScan'.val :
                snapshots[k[1]] = <<>> => k \in Keys(inbox')]_vars

\* C3 witness: the same non-empty scan twice, with an item of it no longer in
\* the inbox.
C3_Witness ==
    /\ last.op = "refresh" /\ last.ok /\ last.same
    /\ lastScan.val # {}
    /\ lastScan.val \ Keys(inbox) # {}

\* C4: every successful refresh leaves each source's snapshot equal to that
\* refresh's scan of the source, and an item that was in the snapshot, was
\* missing from the latest scan and is scanned again is in the diff.
C4_ReappearingItemIsNew ==
    [][RefreshSucceeded =>
          /\ \A s \in Sources :
                Keys(snapshots'[s]) = {k \in lastScan'.val : k[1] = s}
          /\ lastScan.some =>
                \A k \in lastScan'.val :
                    (k \in snapshotted /\ k \notin lastScan.val) => k \in last'.diff]_vars

NoDuplicateKeys(items) ==
    \A i, j \in DOMAIN items : i # j => Key(items[i]) # Key(items[j])

\* C5: neither the inbox nor the snoozed list ever holds two items with the
\* same (source, title).
C5_NoDuplicateKeys == NoDuplicateKeys(inbox) /\ NoDuplicateKeys(snoozed)

\* C6: snooze moves the item unchanged from the inbox to the end of the
\* snoozed list; unsnooze right after it leaves the snoozed list as it was
\* before the snooze and the inbox with the same items, the item now last.
C6_SnoozeUnsnoozeMovesToEnd ==
    /\ (last.op = "snooze" /\ last.found) =>
          LET p == PositionOf(last.inbox0, last.id)
          IN  /\ inbox = RemoveAt(last.inbox0, p)
              /\ snoozed = Append(last.snoozed0, last.inbox0[p])
    /\ (last.op = "unsnooze" /\ last.undo) =>
          LET p == PositionOf(last.inbox0, last.id)
          IN  /\ snoozed = last.snoozed0
              /\ inbox = Append(RemoveAt(last.inbox0, p), last.inbox0[p])

\* C6 witness: an item that was not the last of the inbox has been snoozed and
\* unsnoozed.
C6_Witness ==
    /\ last.op = "unsnooze" /\ last.undo
    /\ PositionOf(last.inbox0, last.id) < Len(last.inbox0)

\* C6 as stated: unsnooze right after snooze restores both lists to their
\* contents before the snooze.
C6_SnoozeUnsnoozeRestores ==
    (last.op = "unsnooze" /\ last.undo) =>
        /\ inbox = last.inbox0
        /\ snoozed = last.snoozed0

----------------------------------------------------------------------------
(* Properties of the repository *)

\* C7: get(id) returns an entry only if some file's frontmatter carries id,
\* and once delete(id) has succeeded get(id) returns absent until an entry
\* with that id is written again.
C7_DeletedStaysAbsent ==
    /\ \A id \in 1..MaxStoreId :
          \A got \in get(files, id) :
              (got.ok /\ got.val.some) =>
                  \E p \in DOMAIN files : files[p].fm.id = id
    /\ \A id \in deleted : get(files, id) = {Ok(None)}

----------------------------------------------------------------------------
(* Properties of the document format *)

Dashes == <<"-", "-", "-">>

\* C8: parse_entry(render_entry(e)) = e for every valid entry whose rationale
\* and verification hold no "---", an absent or empty verification and a
\* rationale with surrounding whitespace included.
C8_RenderParseRoundTrip ==
    (/\ codec.pc = "parsed"
     /\ ~Contains(codec.entry.rationale, Dashes)
     /\ codec.entry.verification.some =>
            ~Contains(codec.entry.verification.val, Dashes))
        => codec.parsed = Ok(codec.entry)

----------------------------------------------------------------------------
(* Properties of run_detectors *)

TaskFailed(task) == task.st = "panicked" \/ (task.st = "finished" /\ ~task.res.ok)
TaskSucceeded(task) == task.st = "finished" /\ task.res.ok

\* C9: a returned run_detectors call is an error carrying no changes when any
\* detector failed, and otherwise Ok with the detectors' changes concatenated
\* in detector order, none dropped and none repeated.
C9_AllOrNothing ==
    run.pc = "done" =>
        /\ (\E i \in DOMAIN run.tasks : TaskFailed(run.tasks[i])) => ~run.result.ok
        /\ ~run.result.ok => "val" \notin DOMAIN run.result
        /\ (\A i \in DOMAIN run.tasks : TaskSucceeded(run.tasks[i])) => run.result.ok
        /\ run.result.ok =>
              /\ \A i \in DOMAIN run.tasks : TaskSucceeded(run.tasks[i])
              /\ run.result.val = Concat([i \in DOMAIN run.tasks |-> run.tasks[i].res.val])

\* C9 witness: the call returned an error although another detector's scan
\* had found changes.
C9_Witness ==
    /\ run.pc = "done"
    /\ ~run.result.ok
    /\ \E i \in DOMAIN run.tasks :
          TaskSucceeded(run.tasks[i]) /\ run.tasks[i].res.val # <<>>

\* the detector's external tool ran and exited with a failure status
ToolExitedNonZero(detector, env) ==
    IF detector = Homebrew
    THEN env.formula.kind = "nonzero" \/ env.cask.kind = "nonzero"
    ELSE IF detector = Npm THEN env.npm.kind = "nonzero"
    ELSE env.cargo.kind = "nonzero"

\* C10: when a detector's external tool exits with a failure status, the
\* detector's scan returns an error.
C10_ToolFailureFailsScan ==
    \A i \in DOMAIN run.tasks :
        (run.tasks[i].st = "finished" /\ ToolExitedNonZero(RunDetectors[i], run.env))
            => ~run.tasks[i].res.ok

\* the detector's external tool cannot be located
ToolMissing(detector, env) ==
    CASE detector = Homebrew ->
            env.formula.kind = "notfound" /\ env.cask.kind = "notfound"
      [] detector = Npm -> env.npm.kind = "notfound"
      [] detector = Cargo -> env.cargo.kind = "notfound"
      [] OTHER -> env.cask.kind = "notfound"

\* C11: when a detector's tool cannot be located its scan succeeds; a
\* detector that lists what the tool prints returns no changes, and the
\* applications detector, which asks brew only which bundles to leave out,
\* returns every bundle of the directory.
C11_MissingToolScanSucceeds ==
    (scan.pc = "scanned" /\ ToolMissing(scan.detector, scan.env)) =>
        /\ scan.res.ok
        /\ scan.detector # Applications => scan.res.val = <<>>
        /\ scan.detector = Applications =>
              [i \in DOMAIN scan.res.val |-> scan.res.val[i].title] = scan.env.apps.names

\* C11 witness: the applications detector has scanned with brew missing and
\* a bundle in the directory.
C11_Witness ==
    /\ scan.pc = "scanned"
    /\ scan.detector = Applications
    /\ ToolMissing(scan.detector, scan.env)
    /\ scan.env.apps.names # <<>>

\* C11 as stated: when a detector's tool cannot be located its scan succeeds
\* with an empty change list.
C11_MissingToolScansEmpty ==
    (scan.pc = "scanned" /\ ToolMissing(scan.detector, scan.env)) =>
        scan.res = Ok(<<>>)

----------------------------------------------------------------------------
(* Properties of promotion *)

BlankRationales == {r \in ApproveRationales : \A i \in DOMAIN r : r[i] \in Whitespace}

\* C12: approve of an item of the inbox with an empty or whitespace-only
\* rationale fails with a validation error, writes no entry file and leaves
\* the inbox as it is.
C12_BlankRationaleRejected ==
    [][\A id \in PromoteIds, r \in BlankRationales, tags \in ApproveTags :
          (last'.op = "approve" /\ HasId(inbox, id) /\ Approve(id, r, tags, None)) =>
              /\ ~last'.ok
              /\ last'.err = "validation"
              /\ files' = files
              /\ inbox' = inbox]_vars

\* C12 witness: an approve has failed with a validation error and the inbox
\* still holds an item.
C12_Witness ==
    /\ last.op = "approve"
    /\ ~last.ok
    /\ last.err = "validation"
    /\ inbox # <<>>
    /\ files = EmptyStore

\* the frontmatter of a document carries the fields of change under another id
PromotedFrom(doc, change) ==
    /\ doc.fm.id # change.id
    /\ doc.fm.title = change.title
    /\ doc.fm.entry_type = change.entry_type
    /\ doc.fm.source = change.source
    /\ doc.fm.cmd = change.cmd
    /\ doc.fm.system = change.system
    /\ doc.fm.detected_at = change.detected_at

\* identifiers carried by the staged items and the stored documents
IdsInUse ==
    {inbox[i].id : i \in DOMAIN inbox} \cup {snoozed[i].id : i \in DOMAIN snoozed}
    \cup {files[p].fm.id : p \in DOMAIN files}

\* C13: a successful approve of inbox item X writes exactly one new entry
\* file, under an identifier not in use before, with X's title, type, source,
\* cmd, system and detected_at, changes no other file and removes X from the
\* inbox; ignore of X removes X from the inbox and writes no file.
C13_ApproveMintsIgnoreDiscards ==
    [][/\ \A id \in PromoteIds, r \in ApproveRationales, tags \in ApproveTags :
             (last'.op = "approve" /\ HasId(inbox, id) /\ Approve(id, r, tags, None)
              /\ last'.ok) =>
                 LET X == inbox[PositionOf(inbox, id)]
                     written == DOMAIN files' \ DOMAIN files
                 IN  /\ Cardinality(written) = 1
                     /\ \A p \in written :
                           /\ PromotedFrom(files'[p], X)
                           /\ files'[p].fm.id \notin IdsInUse
                     /\ \A q \in DOMAIN files : files'[q] = files[q]
                     /\ inbox' = RemoveAt(inbox, PositionOf(inbox, id))
       /\ \A id \in PromoteIds :
             (last'.op = "ignore" /\ Ignore(id)) =>
                 /\ files' = files
                 /\ inbox' = IF HasId(inbox, id)
                             THEN RemoveAt(inbox, PositionOf(inbox, id))
                             ELSE inbox]_vars

\* C13 witness: an approve has succeeded while another item stays in the
\* inbox.
C13_Witness ==
    /\ last.op = "approve"
    /\ last.ok
    /\ files # EmptyStore
    /\ inbox # <<>>

\* the paths of the files whose frontmatter carries id
Holders(store, id) == {p \in DOMAIN store : store[p].fm.id = id}

\* the change restore_to_inbox builds from a stored document
RestoredFrom(change, doc) ==
    /\ change.path = None
    /\ change.title = doc.fm.title
    /\ change.entry_type = doc.fm.entry_type
    /\ change.source = doc.fm.source
    /\ change.cmd = doc.fm.cmd
    /\ change.system = doc.fm.system
    /\ change.detected_at = doc.fm.detected_at
    /\ change.tags = doc.fm.tags

\* C14: restore_to_inbox(id) of a stored entry deletes that entry's file
\* and appends at the end of the inbox one change with an identifier not in
\* use before, no path, and the entry's title, type, source, cmd, system,
\* detected_at and tags; for an id no stored entry has, neither the store nor
\* the inbox changes.
C14_RestoreMovesEntryToInboxEnd ==
    [][\A id \in PromoteIds :
          (last'.op = "restore" /\ RestoreToInbox(id)) =>
              IF Holders(files, id) = {}
              THEN files' = files /\ inbox' = inbox
              ELSE /\ \E p \in Holders(files, id) :
                         /\ DOMAIN files' = DOMAIN files \ {p}
                         /\ \A q \in DOMAIN files' : files'[q] = files[q]
                         /\ Len(inbox') = Len(inbox) + 1
                         /\ RestoredFrom(inbox'[Len(inbox')], files[p])
                   /\ SubSeq(inbox', 1, Len(inbox)) = inbox
                   /\ inbox'[Len(inbox')].id \notin IdsInUse]_vars

\* C14 witness: a tagged entry has been restored behind an item that was
\* already in the inbox.
C14_Witness ==
    /\ last.op = "restore"
    /\ last.found
    /\ Len(inbox) >= 2
    /\ inbox[Len(inbox)].tags # <<>>
    /\ inbox[Len(inbox)].path = None

----------------------------------------------------------------------------
(* Properties of the constructors *)

\* the text has at least one character that is not whitespace
HasNonWhitespace(t) == \E i \in DOMAIN t : t[i] \notin Whitespace

\* C16: Rationale::new(t) and Tag::new(t) succeed exactly when t has at
\* least one character that is not whitespace, and the value built holds t
\* unchanged; otherwise they return a validation error.
C16_NewAcceptsExactlyNonBlank ==
    pure.pc \in {"rationale", "tag"} =>
        IF HasNonWhitespace(pure.text)
        THEN pure.res.ok /\ pure.res.val = pure.text
        ELSE ~pure.res.ok /\ pure.res.err = "validation"

\* C16 witness: a tag with whitespace around its text has been accepted.
C16_Witness ==
    /\ pure.pc = "tag"
    /\ pure.res.ok
    /\ Len(pure.text) > Len(Trim(pure.text))

Blank(t) == ~HasNonWhitespace(t)

\* C15: Entry::new rejects a title, source or cmd that is empty after
\* trimming with a validation error (seen at capture, which then writes no
\* file), and every entry that get or list returns has a title, source, cmd
\* and rationale with a character that is not whitespace, whatever the files
\* hold.
C15_ReturnedEntriesHaveRequiredFields ==
    /\ [](\A e \in {got.val.val : got \in {g \in UNION {get(files, id) : id \in LibraryIds} :
                                              g.ok /\ g.val.some}}
                   \cup UNION {Range(listed.val) : listed \in {l \in list(files) : l.ok}} :
             /\ ~Blank(e.title)
             /\ ~Blank(e.source)
             /\ ~Blank(e.cmd)
             /\ ~Blank(e.rationale))
    /\ [][\A title \in CaptureTitles, r \in CaptureRationales, source \in CaptureSources,
             cmd \in CaptureCmds :
             (last'.op = "capture" /\ Capture(title, r, source, cmd)
              /\ (Blank(title) \/ Blank(source) \/ (cmd.some /\ Blank(cmd.val)))) =>
                 /\ ~last'.ok
                 /\ last'.err = "validation"
                 /\ files' = files]_vars

\* C15 witness: a capture was refused, and get finds a file whose title is
\* blank and returns an error for it.
C15_Witness ==
    /\ last.op = "capture"
    /\ ~last.ok
    /\ \E p \in DOMAIN files :
          /\ parse_frontmatter(files[p]).ok
          /\ Blank(files[p].fm.title)
          /\ \A got \in get(files, files[p].fm.id) : ~got.ok

\* C17: list is fail-fast: when a file does not parse (no header, no end of
\* the frontmatter, frontmatter that is not YAML, no Rationale section, a
\* field Entry::new rejects) every result of the call is an error and carries
\* no entry; when every file parses the call returns one entry per file.
C17_ListFailsFast ==
    \A listed \in list(files) :
        IF \E p \in DOMAIN files : ~parse_entry(files[p]).ok
        THEN ~listed.ok /\ "val" \notin DOMAIN listed
        ELSE /\ listed.ok
             /\ Len(listed.val) = Cardinality(DOMAIN files)
             /\ \A p \in DOMAIN files :
                   Cardinality({i \in DOMAIN listed.val :
                                   listed.val[i] = parse_entry(files[p]).val})
                   = Cardinality({q \in DOMAIN files :
                                     parse_entry(files[q]) = parse_entry(files[p])})

\* C17 witness: two files, one of them without a Rationale section.
C17_Witness ==
    /\ Cardinality(DOMAIN files) = 2
    /\ \E p, q \in DOMAIN files :
          /\ parse_entry(files[p]).ok
          /\ split_frontmatter(files[q].text).ok
          /\ parse_frontmatter(files[q]).ok
          /\ ~parse_entry(files[q]).ok
          /\ ~Blank(files[q].fm.title)

----------------------------------------------------------------------------
(* Properties of the document store *)

\* C18: delete(id) removes one file, a file whose frontmatter carries id,
\* and leaves every other file as it was; when no file carries id it
\* changes nothing in the store.
C18_DeleteRemovesOnlyThatFile ==
    [][\A id \in 1..MaxStoreId :
          (last'.op = "delete" /\ Delete(id)) =>
              IF Holders(files, id) = {}
              THEN files' = files
              ELSE \E p \in Holders(files, id) :
                      /\ DOMAIN files' = DOMAIN files \ {p}
                      /\ \A q \in DOMAIN files' : files'[q] = files[q]]_vars

\* C18 witness: a delete has removed a file and a file of another entry is
\* still there.
C18_Witness ==
    /\ last.op = "delete"
    /\ last.found
    /\ \E p \in DOMAIN files : files[p].fm.id \notin deleted

\* C19: update(entry) for an id some file carries rewrites that file with
\* the rendering of entry, the set of files stays the same and get(id) then
\* returns entry; when no file carries the id it writes the file at
\* entry_path(entry).
C19_UpdateRewritesInPlace ==
    [][\A entry \in StoreEntries :
          (last'.op = "update" /\ Update(entry)) =>
              IF Holders(files, entry.id) # {}
              THEN /\ \E p \in Holders(files, entry.id) :
                         files' = WriteFile(files, p, render_entry(entry))
                   /\ DOMAIN files' = DOMAIN files
                   /\ \A got \in get(files', entry.id) : got = Ok(Some(entry))
              ELSE files' = WriteFile(files, entry_path(entry), render_entry(entry))]_vars

\* C20: create(entry) with an id no file carries adds the file at
\* entry_path(entry), leaves every file that was there as it was, and
\* get(entry.id) then returns entry.
C20_CreateAddsFileAndGetReturnsIt ==
    [][\A entry \in StoreEntries :
          (last'.op = "create" /\ Create(entry) /\ Holders(files, entry.id) = {}) =>
              /\ DOMAIN files' = DOMAIN files \cup {entry_path(entry)}
              /\ entry_path(entry) \notin DOMAIN files
              /\ \A q \in DOMAIN files : files'[q] = files[q]
              /\ \A got \in get(files', entry.id) : got = Ok(Some(entry))]_vars

----------------------------------------------------------------------------
(* Properties of split_columns *)

\* the number of whitespace characters at the head of t
RECURSIVE LeadingGap(_)
LeadingGap(t) ==
    IF t # <<>> /\ Head(t) \in Whitespace THEN 1 + LeadingGap(Tail(t)) ELSE 0

\* the number of characters at the head of t that are not whitespace
RECURSIVE LeadingWord(_)
LeadingWord(t) ==
    IF t # <<>> /\ Head(t) \notin Whitespace THEN 1 + LeadingWord(Tail(t)) ELSE 0

\* the words of t, each with the length of the whitespace run before it
RECURSIVE WordsOf(_)
WordsOf(t) ==
    LET gap == LeadingGap(t)
        after == SubSeq(t, gap + 1, Len(t))
        n == LeadingWord(after)
    IN  IF after = <<>> THEN <<>>
        ELSE <<[gap |-> gap, word |-> SubSeq(after, 1, n)]>>
             \o WordsOf(SubSeq(after, n + 1, Len(after)))

\* words one whitespace character apart form one column, joined by a space
RECURSIVE ColumnsOf(_)
ColumnsOf(words) ==
    IF words = <<>> THEN <<>>
    ELSE LET rest == ColumnsOf(Tail(words))
         IN  IF Len(words) >= 2 /\ words[2].gap = 1
             THEN <<words[1].word \o <<" ">> \o Head(rest)>> \o Tail(rest)
             ELSE <<words[1].word>> \o rest

\* C30: split_columns returns, in order, the columns of the line: a run of
\* two or more whitespace characters ends a column, one whitespace character
\* between two words stays in the column as a space, and no column is empty.
C30_SplitColumnsOnRunsOfTwo ==
    pure.pc = "columns" =>
        /\ pure.columns = ColumnsOf(WordsOf(pure.line))
        /\ \A i \in DOMAIN pure.columns : pure.columns[i] # <<>>

\* C30 witness: three fields two whitespace characters apart have come back
\* as three columns.
C30_Witness ==
    /\ pure.pc = "columns"
    /\ pure.line = <<"a", " ", " ", "a", " ", "\t", "a">>
    /\ pure.columns = <<<<"a">>, <<"a">>, <<"a">>>>

----------------------------------------------------------------------------
(* Properties of run_detectors' tasks *)

C25_EntryFilesAreActive ==
    /\ \A path \in DOMAIN files :
          /\ parse_entry(files[path]).ok
          /\ parse_entry(files[path]).val.status = "active"
    /\ [][last'.op \in {"ignore", "snooze"} => files' = files]_vars

\* C25 witness: a captured entry and an approved one are on file, one of them
\* with an edited rationale.
C25_Witness ==
    /\ \E path \in DOMAIN files : parse_entry(files[path]).val.source = Manual
    /\ \E path \in DOMAIN files : parse_entry(files[path]).val.source # Manual
    /\ \E path \in DOMAIN files : parse_entry(files[path]).val.rationale = <<"x">>

\* C26: a capture that succeeds leaves the inbox and the snapshots as they
\* were, and the entry file it writes has the source "manual".
C26_CaptureIsManualAndBypassesDetection ==
    [][last'.op = "capture" /\ last'.ok =>
          /\ inbox' = inbox
          /\ snapshots' = snapshots
          /\ \A path \in DOMAIN files' :
                (path \notin DOMAIN files \/ files'[path] # files[path])
                    => parse_entry(files'[path]).val.source = Manual]_vars

\* the part of C26 that holds: a capture touches neither the inbox nor the
\* snapshots
CaptureBypassesDetection ==
    [][last'.op = "capture" => inbox' = inbox /\ snapshots' = snapshots]_vars

\* C27: every change a scan returns carries the name() of its detector as
\* source.
C27_ChangesCarryDetectorName ==
    scan.pc = "scanned" =>
        \A i \in DOMAIN ChangesIn(scan.res) :
            ChangesIn(scan.res)[i].source = detector_name(scan.detector)

\* C28: the scan of a detector gated to another OS than the running one
\* returns Ok of no change and has run no tool and read no directory; no
\* detector in default_detectors(os) is gated to another OS.
C28_GatedScanIsEmptyAndListIsGated ==
    /\ (scan.pc = "scanned" /\ os_gate(scan.detector) \notin {"any", scan.os}) =>
           scan.res = Ok(<<>>) /\ scan.invoked = {}
    /\ scan.pc \in {"ready", "scanned"} =>
           (scan.listed => os_gate(scan.detector) \in {"any", scan.os})

\* C28 witness: a detector built by the caller has been scanned on an OS it
\* is not gated to, where its tool would have listed a package.
C28_Witness ==
    /\ scan.pc = "scanned"
    /\ os_gate(scan.detector) \notin {"any", scan.os}
    /\ ~scan.listed
    /\ scan.out = Stdout(<<Jq>>)

\* the events of a refresh come in threes, read, diff and write of one
\* source, each source once, and the write of the inbox, if any, is the last
\* event
InLoopOrder(trace) ==
    \A i \in DOMAIN trace :
        LET k == (i - 1) % 3
        IN  IF trace[i].ev = "inbox"
            THEN i = Len(trace) /\ k = 0
            ELSE /\ trace[i].ev = <<"read", "diff", "write">>[k + 1]
                 /\ trace[i].source = trace[i - k].source
                 /\ \A j \in 1..(i - k - 1) : trace[j].source # trace[i].source

\* C21: within one refresh each source has its snapshot read, its diff
\* computed and its snapshot written, in that order and before the next
\* source; a snapshot is written only by the write step of its source, and
\* the inbox is written at most once, after the snapshot of every scanned
\* source has been written.
C21_SnapshotThenDiffThenWritePerSource ==
    /\ []InLoopOrder(proc.trace)
    /\ [][snapshots' # snapshots =>
              /\ proc.trace[Len(proc.trace)] = [ev |-> "diff", source |-> Head(proc.groups)]
              /\ \A s \in Sources \ {Head(proc.groups)} : snapshots'[s] = snapshots[s]]_vars
    /\ [][inbox' # inbox =>
              /\ proc.groups = <<>>
              /\ \A s \in GroupSources(proc.changes) :
                    \E i \in DOMAIN proc.trace :
                        proc.trace[i] = [ev |-> "write", source |-> s]
              /\ proc'.pc = "idle"]_vars

\* C21 witness: a refresh over two sources has ended with the write of the
\* inbox.
C21_Witness ==
    /\ proc.pc = "idle"
    /\ Len(proc.trace) = 7
    /\ proc.trace[7].ev = "inbox"

\* C22: while inbox.yaml is malformed no step of a refresh writes a snapshot
\* or the inbox file, and the load of the inbox ends the refresh with an
\* error.
C22_MalformedInboxAbortsRefresh ==
    [][~proc.parses =>
          /\ snapshots' = snapshots
          /\ inbox' = inbox
          /\ ~proc'.parses
          /\ proc.pc = "load_inbox" => (proc'.pc = "idle" /\ ~proc'.result.ok)]_vars

\* the part of C22 that holds: the refresh of sv-cli
CliRefreshAbortsOnMalformedInbox ==
    [][(~proc.parses /\ (proc.pc = "idle" \/ proc.ui = "cli")) =>
          /\ snapshots' = snapshots
          /\ inbox' = inbox
          /\ ~proc'.parses
          /\ proc.pc = "load_inbox" => (proc'.pc = "idle" /\ ~proc'.result.ok)]_vars

\* C23: a call whose load and save enclose no save of another caller leaves
\* the list on file as its mutation of the list that was on file, and as long
\* as no call has overlapped another the list on file is the list that
\* results from every completed mutation in turn; a call is a load and a
\* later save with no lock between them.
C23_UnlockedLoadModifySave ==
    /\ [](inbox # proc.expected => proc.raced)
    /\ [][\A c \in Callers :
              (proc.callers[c].pc = "loaded" /\ proc'.callers[c].pc = "idle"
                  /\ ~proc.callers[c].overlapped)
              => inbox' = mutated(inbox, proc.callers[c].op)]_vars

\* C23 witness: two callers have removed different items, their calls
\* overlapped, and one of the two items is still in the list on file.
C23_Witness ==
    /\ \A c \in Callers : proc.callers[c].pc = "idle" /\ proc.callers[c].op.kind = "remove"
    /\ proc.callers[1].op.id # proc.callers[2].op.id
    /\ proc.raced
    /\ HasId(inbox, proc.callers[1].op.id) \/ HasId(inbox, proc.callers[2].op.id)
    /\ ~HasId(proc.expected, proc.callers[1].op.id)
    /\ ~HasId(proc.expected, proc.callers[2].op.id)

\* a remove and an add have overlapped and the added item is not in the list
\* on file
LostAdd ==
    /\ \A c \in Callers : proc.callers[c].pc = "idle"
    /\ \E c, d \in Callers :
          /\ proc.callers[c].op.kind = "add" /\ proc.callers[d].op.kind = "remove"
          /\ HasId(proc.expected, proc.callers[c].op.item.id)
          /\ ~HasId(inbox, proc.callers[c].op.item.id)

\* SETUPVAULT_PATH is set to a text that is not blank
OverrideSet(around) == around.var.some /\ ~Blank(around.var.val)

\* the config file is there, is a VaultConfig and its path is not blank
PointerSet(around) ==
    /\ around.config_dir
    /\ around.file.kind = "config"
    /\ around.file.path.some
    /\ ~Blank(around.file.path.val)

\* the config file cannot be found or read as a VaultConfig
PointerUnreadable(around) == ~around.config_dir \/ around.file.kind = "malformed"

\* C31 as stated: the override when it is set and not blank, otherwise the
\* path of the config file when it is there and not blank, otherwise the
\* default path.
C31_OverrideThenPointerThenDefault ==
    pure.pc = "resolved" =>
        pure.out = IF OverrideSet(pure.around) THEN Ok(pure.around.var.val)
                   ELSE IF PointerSet(pure.around) THEN Ok(pure.around.file.path.val)
                   ELSE default_path(pure.around.home)

\* C31: resolve_vault_path returns the override when it is set and not
\* blank; otherwise a storage error when the config directory is unknown or
\* the config file is no VaultConfig; otherwise the path of the config file
\* when it is not blank; otherwise the default path. A lower location is
\* never returned while a higher one is set.
C31_OverrideThenPointerOrErrorThenDefault ==
    pure.pc = "resolved" =>
        /\ pure.out = IF OverrideSet(pure.around) THEN Ok(pure.around.var.val)
                      ELSE IF PointerUnreadable(pure.around) THEN StorageErr
                      ELSE IF PointerSet(pure.around) THEN Ok(pure.around.file.path.val)
                      ELSE default_path(pure.around.home)
        /\ (pure.out.ok /\ OverrideSet(pure.around)) => pure.out.val = pure.around.var.val
        /\ (pure.out.ok /\ pure.out.val = DefaultVault) =>
               ~OverrideSet(pure.around) /\ ~PointerSet(pure.around)

\* C31 witness: the override and the config file name different vaults and
\* the override is returned.
C31_Witness ==
    /\ pure.pc = "resolved"
    /\ OverrideSet(pure.around) /\ PointerSet(pure.around)
    /\ pure.around.var.val # pure.around.file.path.val
    /\ pure.out = Ok(pure.around.var.val)

\* the items a step has put at the end of the inbox
Appended == SubSeq(inbox', Len(inbox) + 1, Len(inbox'))

\* C32: a key that is in the snapshot of its source is put into the inbox by
\* no refresh, whatever has become of the item it came with; it stays in the
\* snapshot through every refresh whose scan of the source has it (or has
\* nothing for the source), and no other operation writes a snapshot.
C32_SnapshottedKeyIsNotAppendedAgain ==
    /\ [][last'.op = "refresh" =>
              \A s \in Sources : \A k \in Keys(snapshots[s]) :
                  /\ k \notin Keys(Appended)
                  /\ (last'.ok /\ (k \in lastScan'.val
                                   \/ \A j \in lastScan'.val : j[1] # s))
                         => k \in Keys(snapshots'[s])]_vars
    /\ [][last'.op # "refresh" => snapshots' = snapshots]_vars

\* C32 witness: a refresh has scanned an item again that had left the inbox
\* by a snooze, and has not put it into the inbox.
C32_Witness ==
    /\ last.op = "refresh" /\ last.ok
    /\ last.diff = {}
    /\ \E i \in DOMAIN snoozed :
          /\ Key(snoozed[i]) \in lastScan.val
          /\ Key(snoozed[i]) \notin Keys(inbox)

\* C33: a refresh in which the scan of some detector fails returns an error,
\* and a refresh that returns an error leaves the inbox, the snoozed list,
\* every snapshot and the entry files as they were.
C33_FailedRefreshTouchesNothing ==
    /\ [][last'.op = "refresh" =>
              \A results \in PromoteScans(nextId) :
                  ((\E i \in DOMAIN results : ~results[i].ok) /\ Refresh(results))
                      => ~last'.ok]_vars
    /\ [][(last'.op = "refresh" /\ ~last'.ok) =>
              UNCHANGED <<inbox, snoozed, snapshots, files>>]_vars

\* C33 witness: a refresh has failed over a vault that has an item in the
\* inbox, a snoozed item and a snapshot.
C33_Witness ==
    /\ last.op = "refresh" /\ ~last.ok
    /\ inbox # <<>> /\ snoozed # <<>>
    /\ \E s \in Sources : snapshots[s] # <<>>

\* the error a failed task hands to the join loop
TaskError(task) == IF task.st = "panicked" THEN JoinErr ELSE task.res

\* C34: the result of a returned run_detectors call is given by the tasks'
\* own results and their places in the detector list alone: Ok of the
\* changes in list order when it is Ok, and otherwise the error of the first
\* task of the list that failed, every task before it having succeeded; no
\* task that ends after the return changes the result.
C34_OutcomeByListOrder ==
    /\ [](run.pc = "done" =>
             IF run.result.ok
             THEN run.result.val = Concat([i \in DOMAIN run.tasks |-> run.tasks[i].res.val])
             ELSE \E i \in DOMAIN run.tasks :
                     /\ TaskFailed(run.tasks[i])
                     /\ \A j \in 1..(i - 1) : TaskSucceeded(run.tasks[j])
                     /\ run.result = TaskError(run.tasks[i]))
    /\ [][run.pc = "done" => run'.result = run.result /\ run'.pc = "done"]_vars

\* C34 witness: the scans of npm and cargo have both failed and the call has
\* returned the error of npm, the earlier of the two in the list.
C34_Witness ==
    /\ run.pc = "done"
    /\ run.tasks[2].st = "finished" /\ ~run.tasks[2].res.ok
    /\ run.tasks[3].st = "finished" /\ ~run.tasks[3].res.ok
    /\ run.tasks[2].res # run.tasks[3].res
    /\ run.result = run.tasks[2].res

\* the identifiers of the staged items, inbox first
StagedIds == [i \in 1..(Len(inbox) + Len(snoozed)) |-> (inbox \o snoozed)[i].id]

\* C35: no identifier is staged twice, in one list or across the inbox and
\* the snoozed list; a snooze or unsnooze keeps the number of staged items,
\* and with an id that is not in the list it takes from it leaves both lists
\* as they are.
C35_StagedIdsAreDistinct ==
    /\ [](\A i, j \in DOMAIN StagedIds : StagedIds[i] = StagedIds[j] => i = j)
    /\ [][last'.op \in {"snooze", "unsnooze"} =>
              /\ Len(inbox') + Len(snoozed') = Len(inbox) + Len(snoozed)
              /\ \A id \in Ids :
                    \/ HasId(IF last'.op = "snooze" THEN inbox ELSE snoozed, id)
                    \/ ~(IF last'.op = "snooze" THEN Snooze(id) ELSE Unsnooze(id))
                    \/ (inbox' = inbox /\ snoozed' = snoozed)]_vars

\* C35 witness: after an unsnooze both lists hold items, as many in all as
\* identifiers can be minted.
C35_Witness ==
    /\ last.op = "unsnooze"
    /\ Len(inbox) >= 1 /\ Len(snoozed) >= 1
    /\ Len(inbox) + Len(snoozed) = MaxId

\* a snooze or unsnooze has returned an error after its first write
MoveFailedAfterWrite ==
    /\ proc.op \in {"snooze", "unsnooze"}
    /\ proc.pc = "idle" /\ ~proc.result.ok
    /\ proc.wrote >= 1

\* C36: when snooze_inbox_item or unsnooze_item has returned an error after
\* its first write, the item is in the inbox or in the snoozed list.
C36_FailedMoveKeepsItem ==
    MoveFailedAfterWrite => (HasId(inbox, proc.id) \/ HasId(snoozed, proc.id))

\* the part of C36 that holds: snooze_inbox_item
FailedSnoozeKeepsItem ==
    (MoveFailedAfterWrite /\ proc.op = "snooze")
        => (HasId(inbox, proc.id) /\ HasId(snoozed, proc.id))

\* C37: from the moment restore_to_inbox has found the entry, at every
\* step and after its return, the entry file is in the store or the item
\* made from it is in the inbox.
C37_RestoreKeepsRecord ==
    (proc.op = "restore" /\ proc.change.some) =>
        (FindEntryPaths(files, proc.id) # {} \/ HasId(inbox, proc.change.val.id))

\* restore_to_inbox does keep the record until its delete has taken place
RestoreKeepsRecordUntilDelete ==
    (proc.op = "restore" /\ proc.change.some /\ proc.wrote = 0) =>
        FindEntryPaths(files, proc.id) # {}

\* the entry an approve in progress has made is on file
EntryWritten == FindEntryPaths(files, proc.entry.val.id) # {}

IsSeparator(line) == Contains(line, <<"-", "-", "-">>)

IsHeader(line) ==
    /\ StartsWith(to_lowercase(line), <<"n", "a", "m", "e">>)
    /\ Contains(to_lowercase(line), <<"i", "d">>)

\* the position of the first separator row, or past the end when there is none
FirstSeparator(output) ==
    IF \E i \in DOMAIN output : IsSeparator(output[i])
    THEN Min({i \in DOMAIN output : IsSeparator(output[i])})
    ELSE Len(output) + 1

\* the (title, command) pairs the lines at the positions of `rows` stand for
RECURSIVE PackagesOf(_, _, _)
PackagesOf(output, i, rows) ==
    IF i > Len(output) THEN <<>>
    ELSE IF i \in rows
    THEN <<[title |-> split_columns(output[i])[1],
            cmd |-> <<"winget install --id ">> \o split_columns(output[i])[2]]>>
         \o PackagesOf(output, i + 1, rows)
    ELSE PackagesOf(output, i + 1, rows)

Emitted == [i \in DOMAIN pure.changes.val |->
               [title |-> pure.changes.val[i].title, cmd |-> pure.changes.val[i].cmd]]

\* the lines after the first separator row that are neither blank nor a header
\* and have at least two columns
LaterRows(output) ==
    {i \in DOMAIN output :
        /\ i > FirstSeparator(output)
        /\ ~Blank(output[i]) /\ ~IsHeader(output[i])
        /\ Len(split_columns(output[i])) >= 2}

\* C39: parse_winget_list emits one change, with the first column as title
\* and `winget install --id <second column>` as command, for each line after
\* the first separator row that is not blank, not a header and has at least
\* two columns, and nothing else.
C39_OneChangePerLaterRow ==
    pure.pc = "changes" =>
        /\ pure.changes.ok
        /\ Emitted = PackagesOf(pure.output, 1, LaterRows(pure.output))

\* what parse_winget_list does emit: of those lines, the ones without "---"
WingetSkipsEverySeparator ==
    pure.pc = "changes" =>
        /\ pure.changes.ok
        /\ Emitted = PackagesOf(pure.output, 1,
                                {i \in LaterRows(pure.output) : ~IsSeparator(pure.output[i])})

LastTask == Len(RunDetectors)

\* C24: run_detectors waits for no result before every detector's scan has
\* been started, and the scan of the detector started last is started and
\* runs to its end although the scans before it may block for ever, fail or
\* panic.
C24_ScansStartAndRunIndependently ==
    /\ [](run.pc \in {"join", "done"} =>
             \A i \in DOMAIN RunDetectors : run.tasks[i].st # "unspawned")
    /\ <>(run.tasks[LastTask].st \in {"finished", "panicked"})

\* C24 witness: a later detector's scan has finished while an earlier one is
\* still running, and another while an earlier one has panicked.
C24_Witness ==
    /\ run.pc = "join"
    /\ run.tasks[1].st = "running"
    /\ run.tasks[2].st = "panicked"
    /\ run.tasks[3].st = "finished"

====
